---- MODULE Spec2Model ----
(***************************************************************************)
(* Model of quiet-shell: the output filtering engine (paragraph parser +   *)
(* filterOutput), the TemplateManager (built-in/custom merge, TTL cache)   *)
(* and the execute_command handler of the MCP server.                      *)
(*                                                                         *)
(* Text is modelled as a sequence of one-character strings, so that        *)
(* split('\n'), trim() and join('\n') are computed, not assumed.           *)
(***************************************************************************)
EXTENDS Integers, Sequences, FiniteSets, TLC

VARIABLES
    fpc,          \* filter harness: "init" | "parsed" | "filtered"
    fRaw,         \* rawOutput argument of filterOutput / parseParagraphs
    fTemplate,    \* template argument of filterOutput
    fParagraphs,  \* value returned by parseParagraphs(fRaw)
    fResult,      \* value returned by filterOutput(fRaw, fTemplate)
    fCalls,       \* the filterOutput calls made so far, oldest first
    now,          \* Date.now(), in clock ticks
    fsConfig,     \* what discovery finds from the working directory
    cacheTTL,     \* TemplateManager.cacheTTL
    cache,        \* TemplateManager.cache (present = FALSE models null)
    cacheTime,    \* TemplateManager.cacheTime
    loaded,       \* custom templates obtained by the latest load cycle
    builtins,     \* what the module's BUILTIN_TEMPLATES object holds
    reloadPending,\* "no", or the cache state reloadConfig() discarded
    last,         \* the latest operation and what it returned
    pc,           \* execute_command request: "idle" | "executing" | "writing" | "done"
    req,          \* arguments of the request in progress
    execResult,       \* ExecutionResult the request obtained from executeCommand
    selected,     \* templateObj the request resolved (applied = FALSE: none)
    pending,      \* response fields computed before the output-file step
    written,      \* what the output-file step wrote
    resp,         \* response of the latest finished request
    lpc,          \* loader harness: "ready" | "validated" | "loaded"
    lTemplate,    \* argument of validateTemplate
    lValidated,   \* what validateTemplate(lTemplate) did
    lFile,        \* the file loadConfig is pointed at
    lConfig,      \* what loadConfig(lFile) did
    dpc,          \* findConfigPath: "call" | "loop" | "done"
    dFiles,       \* the paths for which existsSync answers true
    dStart,       \* startDir (process.cwd() by default)
    dCurrent,     \* currentDir
    dChecked,     \* the paths handed to existsSync so far, in order
    dResult,      \* the returned path, or "null"
    child,        \* the spawned process: "running" | "errored" | "closed"
    outputChunks, \* executeCommand's outputChunks
    received,     \* the data events delivered so far: stream and bytes
    closeCode,    \* the code the close event reported, once it has fired
    spawnError,   \* the message of the error event, once it has fired
    promise,      \* the promise executeCommand returned
    calls         \* concurrent executeCommand invocations, by number

filterVars == <<fpc, fRaw, fTemplate, fParagraphs, fResult, fCalls>>
managerVars == <<now, fsConfig, cacheTTL, cache, cacheTime, loaded, builtins,
                 reloadPending, last>>
serverVars == <<pc, req, execResult, selected, pending, written, resp>>
loaderVars == <<lpc, lTemplate, lValidated, lFile, lConfig>>
discoveryVars == <<dpc, dFiles, dStart, dCurrent, dChecked, dResult>>
executorVars == <<child, outputChunks, received, closeCode, spawnError,
                  promise>>
concurrentVars == <<calls>>
unitVars == <<loaderVars, discoveryVars, executorVars, concurrentVars>>
vars == <<fpc, fRaw, fTemplate, fParagraphs, fResult, fCalls, now, fsConfig, cacheTTL,
          cache, cacheTime, loaded, builtins, reloadPending, last, pc, req,
          execResult,
          selected, pending, written, resp, lpc, lTemplate, lValidated, lFile,
          lConfig, dpc, dFiles, dStart, dCurrent, dChecked, dResult, child,
          outputChunks, received, closeCode, spawnError, promise, calls>>

\* the single-function harnesses are switched off
InitLoaderIdle ==
    /\ lpc = "off"
    /\ lTemplate = <<>>
    /\ lValidated = <<>>
    /\ lFile = <<>>
    /\ lConfig = <<>>

InitDiscoveryIdle ==
    /\ dpc = "off"
    /\ dFiles = {}
    /\ dStart = <<>>
    /\ dCurrent = <<>>
    /\ dChecked = <<>>
    /\ dResult = "null"

InitExecutorIdle ==
    /\ child = "off"
    /\ outputChunks = <<>>
    /\ received = <<>>
    /\ closeCode = <<>>
    /\ spawnError = <<>>
    /\ promise = <<>>

InitConcurrentIdle == calls = <<>>

InitUnitsIdle ==
    /\ InitLoaderIdle
    /\ InitDiscoveryIdle
    /\ InitExecutorIdle
    /\ InitConcurrentIdle

----------------------------------------------------------------------------
(* Bounds *)

MaxLines == 5
MaxTail == 2
MaxTime == 3

----------------------------------------------------------------------------
(* Text *)

NL == "\n"

\* String.prototype.trim() strips these (the model alphabet has one blank).
IsWhitespace(c) == c \in {" ", NL}

RECURSIVE TrimStart(_)
TrimStart(s) ==
    IF s = <<>> THEN <<>>
    ELSE IF IsWhitespace(Head(s)) THEN TrimStart(Tail(s))
    ELSE s

RECURSIVE TrimEnd(_)
TrimEnd(s) ==
    IF s = <<>> THEN <<>>
    ELSE IF IsWhitespace(s[Len(s)]) THEN TrimEnd(SubSeq(s, 1, Len(s) - 1))
    ELSE s

Trim(s) == TrimEnd(TrimStart(s))

\* output.split('\n')
RECURSIVE Split(_)
Split(s) ==
    IF \A i \in 1..Len(s) : s[i] # NL THEN <<s>>
    ELSE LET i == CHOOSE k \in 1..Len(s) :
                       s[k] = NL /\ \A j \in 1..(k - 1) : s[j] # NL
         IN  <<SubSeq(s, 1, i - 1)>> \o Split(SubSeq(s, i + 1, Len(s)))

\* lines.join('\n')
RECURSIVE Join(_)
Join(lines) ==
    IF lines = <<>> THEN <<>>
    ELSE IF Len(lines) = 1 THEN lines[1]
    ELSE lines[1] \o <<NL>> \o Join(Tail(lines))

\* paragraphs.flat()
RECURSIVE Flat(_)
Flat(ps) == IF ps = <<>> THEN <<>> ELSE Head(ps) \o Flat(Tail(ps))

----------------------------------------------------------------------------
(* Regular expressions.  A pattern is one of a few source strings; RegExp  *)
(* construction and RegExp.test are modelled for exactly these.            *)

Regexes == {"E", "", "["}

\* new RegExp(src) throws for an unterminated character class.
RegexCompiles(src) == src # "["

\* new RegExp(src).test(line): unanchored search, no flags.
RegexTest(src, line) ==
    CASE src = "E" -> \E i \in 1..Len(line) : line[i] = "E"
      [] src = ""  -> TRUE
      [] OTHER     -> FALSE

----------------------------------------------------------------------------
(* Paragraph parser *)

\* Variant: the paragraph still open at the end of input is not pushed.
RECURSIVE ParseLoop_DropsLast(_, _, _)
ParseLoop_DropsLast(lines, paragraphs, currentParagraph) ==
    IF lines = <<>> THEN paragraphs
    ELSE LET line == Head(lines)
         IN  IF Len(Trim(line)) = 0
             THEN IF Len(currentParagraph) > 0
                  THEN ParseLoop_DropsLast(Tail(lines),
                           Append(paragraphs, currentParagraph), <<>>)
                  ELSE ParseLoop_DropsLast(Tail(lines), paragraphs,
                                           currentParagraph)
             ELSE ParseLoop_DropsLast(Tail(lines), paragraphs,
                                      Append(currentParagraph, line))

RECURSIVE ParseLoop(_, _, _)
ParseLoop(lines, paragraphs, currentParagraph) ==
    IF lines = <<>>
    THEN IF Len(currentParagraph) > 0
         THEN Append(paragraphs, currentParagraph)
         ELSE paragraphs
    ELSE LET line == Head(lines)
             trimmedLine == Trim(line)
         IN  IF Len(trimmedLine) = 0
             THEN IF Len(currentParagraph) > 0
                  THEN ParseLoop(Tail(lines),
                                 Append(paragraphs, currentParagraph), <<>>)
                  ELSE ParseLoop(Tail(lines), paragraphs, currentParagraph)
             ELSE ParseLoop(Tail(lines), paragraphs,
                            Append(currentParagraph, line))

parseParagraphs(output) ==
    IF output = <<>> \/ Len(Trim(output)) = 0 THEN <<>>
    ELSE ParseLoop(Split(output), <<>>, <<>>)

----------------------------------------------------------------------------
(* Output filter *)

Max(a, b) == IF a > b THEN a ELSE b

\* Variant: slice(0, n) instead of slice(-n).
SliceLast_TakesFirst(arr, n) ==
    IF n >= Len(arr) THEN arr ELSE SubSeq(arr, 1, n)

\* Array.prototype.slice(-n) for an integer n > 0
SliceLast(arr, n) ==
    IF n >= Len(arr) THEN arr ELSE SubSeq(arr, Len(arr) - n + 1, Len(arr))

\* Variant: the seen-set is never consulted.
AddUnseen_NoDedup(acc, lines) == acc \o lines

\* for (const line of ...) if (!seen.has(line)) { seen.add(line); result.push(line) }
RECURSIVE AddUnseen(_, _)
AddUnseen(acc, lines) ==
    IF lines = <<>> THEN acc
    ELSE LET line == Head(lines)
         IN  IF \E i \in 1..Len(acc) : acc[i] = line
             THEN AddUnseen(acc, Tail(lines))
             ELSE AddUnseen(Append(acc, line), Tail(lines))

\* Variant: an invalid regex yields the parsed lines instead of the raw text.
filterOutput_InvalidRegexDropsBlanks(rawOutput, template) ==
    IF rawOutput = <<>> \/ Len(Trim(rawOutput)) = 0 THEN <<>>
    ELSE LET paragraphs == parseParagraphs(rawOutput)
         IN  IF Len(paragraphs) = 0 THEN <<>>
             ELSE IF ~RegexCompiles(template.include_regex)
                  THEN Join(Flat(paragraphs))
             ELSE LET matchedLines ==
                          SelectSeq(Flat(paragraphs),
                              LAMBDA line : RegexTest(template.include_regex, line))
                      tailCount == Max(0, template.tail_paragraphs)
                      tailLines ==
                          IF tailCount > 0
                          THEN Flat(SliceLast(paragraphs, tailCount))
                          ELSE <<>>
                  IN  Join(AddUnseen(AddUnseen(<<>>, matchedLines), tailLines))

filterOutput(rawOutput, template) ==
    IF rawOutput = <<>> \/ Len(Trim(rawOutput)) = 0 THEN <<>>
    ELSE LET paragraphs == parseParagraphs(rawOutput)
         IN  IF Len(paragraphs) = 0 THEN <<>>
             ELSE IF ~RegexCompiles(template.include_regex) THEN rawOutput
             ELSE LET matchedLines ==
                          SelectSeq(Flat(paragraphs),
                              LAMBDA line : RegexTest(template.include_regex, line))
                      tailCount == Max(0, template.tail_paragraphs)
                      \* NaN > 0 is false; slice(-0.5) is slice(0); slice
                      \* truncates -(n + 1/2) to -n
                      tailLines ==
                          IF template.tail_kind = "NaN" THEN <<>>
                          ELSE IF template.tail_kind = "half"
                                  /\ template.tail_paragraphs = 0
                          THEN Flat(paragraphs)
                          ELSE IF tailCount > 0
                          THEN Flat(SliceLast(paragraphs, tailCount))
                          ELSE <<>>
                  IN  Join(AddUnseen(AddUnseen(<<>>, matchedLines), tailLines))

----------------------------------------------------------------------------
(* Inputs of the filter harness *)

LineTexts == {<<>>, <<" ">>, <<"a">>, <<"E">>, <<" ", "E">>}

RECURSIVE LineSeqs(_)
LineSeqs(n) ==
    IF n = 0 THEN {<<>>}
    ELSE LET shorter == LineSeqs(n - 1)
         IN  shorter \cup
             {Append(ls, l) : ls \in {s \in shorter : Len(s) = n - 1},
                              l \in LineTexts}

RawOutputs == {Join(ls) : ls \in LineSeqs(MaxLines)}

\* tail_paragraphs is the integer part of the number and tail_kind tells what
\* number it is: "" the integer itself, "half" the integer plus one half,
\* "NaN" not a number (also what Math.max(0, undefined) evaluates to)
Template(d, r, t, s) ==
    [description |-> d, include_regex |-> r, tail_paragraphs |-> t,
     tail_kind |-> "", suppress_output_on_success |-> s]

FilterTemplates ==
    {Template("test", r, t, "undefined") : r \in Regexes, t \in (-1)..MaxTail}

----------------------------------------------------------------------------
(* Template sets: mappings from template name to template *)

EmptyTemplates == [n \in {} |-> Template("", "", 0, "undefined")]

\* templates[name] = template
Put(templates, name, template) ==
    [n \in (DOMAIN templates) \cup {name} |->
        IF n = name THEN template ELSE templates[n]]

\* Names that every plain object inherits from Object.prototype (a selection)
ObjectPrototypeKeys == {"constructor", "toString", "__proto__"}

\* An inherited member (a function, or Object.prototype itself) where a
\* template is expected: description, include_regex, tail_paragraphs and
\* suppress_output_on_success all read as undefined.  new RegExp(undefined)
\* is the empty pattern and Math.max(0, undefined) is NaN.
InheritedMember ==
    [Template("undefined", "", 0, "undefined") EXCEPT !.tail_kind = "NaN"]

\* templates[name] on a plain object: an own key, else the prototype chain,
\* else undefined
Get(templates, name) ==
    IF name \in DOMAIN templates
    THEN [defined |-> TRUE, own |-> TRUE, value |-> templates[name]]
    ELSE IF name \in ObjectPrototypeKeys
    THEN [defined |-> TRUE, own |-> FALSE, value |-> InheritedMember]
    ELSE [defined |-> FALSE, own |-> FALSE,
          value |-> Template("", "", 0, "undefined")]

\* The built-in patterns are alternations of error markers; the model
\* alphabet has the single marker "E".
BUILTIN_TEMPLATES ==
    [n \in {"tsc", "vitest", "maven-build", "maven-test"} |->
        CASE n = "tsc"         -> Template("tsc errors", "E", 1, "undefined")
          [] n = "vitest"      -> Template("vitest failures", "E", 0, "undefined")
          [] n = "maven-build" -> Template("maven build errors", "E", 0, "undefined")
          [] n = "maven-test"  -> Template("maven test failures", "E", 0, "undefined")]

----------------------------------------------------------------------------
(* Configuration documents as js-yaml delivers them *)

YString(str) == [type |-> "string", s |-> str, n |-> 0]
\* a number is the integer n, n + 1/2 (s = "half"), or NaN (s = "NaN")
YNumber(num) == [type |-> "number", s |-> "", n |-> num]
YHalf(num) == [type |-> "number", s |-> "half", n |-> num]
YNaN == [type |-> "number", s |-> "NaN", n |-> 0]
YNull == [type |-> "null", s |-> "", n |-> 0]
YBoolean(b) == [type |-> "boolean", s |-> IF b THEN "true" ELSE "false", n |-> 0]
YUndefined == [type |-> "undefined", s |-> "", n |-> 0]

RawTemplate(d, r, t, so) ==
    [type |-> "object", description |-> d, include_regex |-> r,
     tail_paragraphs |-> t, suppress_output_on_success |-> so]

Entry(name, template) == [name |-> name, template |-> template]

\* kind: "unreadable" (readFileSync throws), "unparsable" (load throws),
\* "empty" (load returns undefined), "scalar" (a string or number document),
\* "array" (a sequence document), "no_templates" (a mapping without the
\* templates key, or with a null one), "templates_scalar" (the templates key
\* holds a string or number), "ok" (the templates key holds a mapping, whose
\* entries are listed in document order)
ConfigFile(kind, entries) == [kind |-> kind, entries |-> entries]

\* v < 0 for a number v: NaN compares false, n + 1/2 < 0 iff n < 0
LessThanZero(v) == v.s # "NaN" /\ v.n < 0

\* tail: the tail_paragraphs value as validateTemplate received and returns
\* it; template.tail_paragraphs carries it when it is an integer
Rejected ==
    [ok |-> FALSE, template |-> Template("", "", 0, "undefined"),
     tail |-> YUndefined]

validateTemplate(template) ==
    IF template.type # "object" THEN Rejected
    ELSE IF template.description.type # "string" THEN Rejected
    ELSE IF template.include_regex.type # "string" THEN Rejected
    ELSE IF ~RegexCompiles(template.include_regex.s) THEN Rejected
    ELSE IF template.tail_paragraphs.type # "number"
            \/ LessThanZero(template.tail_paragraphs) THEN Rejected
    ELSE [ok |-> TRUE,
          template |-> [Template(template.description.s,
                                 template.include_regex.s,
                                 template.tail_paragraphs.n, "undefined")
                           EXCEPT !.tail_kind = template.tail_paragraphs.s],
          tail |-> template.tail_paragraphs]

\* Variant: the first invalid entry ends the loop.
RECURSIVE LoadLoop_StopsAtInvalid(_, _, _)
LoadLoop_StopsAtInvalid(entries, order, templates) ==
    IF entries = <<>>
    THEN [threw |-> FALSE, order |-> order, templates |-> templates]
    ELSE LET e == Head(entries)
             validated == validateTemplate(e.template)
         IN  IF validated.ok
             THEN LoadLoop_StopsAtInvalid(Tail(entries),
                           IF e.name \in DOMAIN templates THEN order
                           ELSE Append(order, e.name),
                           Put(templates, e.name, validated.template))
             ELSE [threw |-> FALSE, order |-> order, templates |-> templates]

\* for (const [name, template] of Object.entries(templatesObj)) ...
RECURSIVE LoadLoop(_, _, _)
LoadLoop(entries, order, templates) ==
    IF entries = <<>>
    THEN [threw |-> FALSE, order |-> order, templates |-> templates]
    ELSE LET e == Head(entries)
             validated == validateTemplate(e.template)
         IN  IF validated.ok
             THEN LoadLoop(Tail(entries),
                           IF e.name \in DOMAIN templates THEN order
                           ELSE Append(order, e.name),
                           Put(templates, e.name, validated.template))
             ELSE LoadLoop(Tail(entries), order, templates)

Threw == [threw |-> TRUE, order |-> <<>>, templates |-> EmptyTemplates]

\* Variant: a document without a templates object loads as an empty set.
loadConfig_MissingTemplatesIsEmpty(file) ==
    IF file.kind \in {"unreadable", "unparsable", "empty", "scalar"} THEN Threw
    ELSE IF file.kind \in {"array", "no_templates", "templates_scalar"}
    THEN [threw |-> FALSE, order |-> <<>>, templates |-> EmptyTemplates]
    ELSE LoadLoop(file.entries, <<>>, EmptyTemplates)

loadConfig(file) ==
    IF file.kind = "unreadable" THEN Threw          \* readFileSync throws
    ELSE IF file.kind = "unparsable" THEN Threw     \* load throws
    ELSE IF file.kind \in {"empty", "scalar"}
    THEN Threw            \* !parsed || typeof parsed !== "object"
    ELSE IF file.kind \in {"array", "no_templates", "templates_scalar"}
    THEN Threw            \* !config["templates"] || typeof ... !== "object"
    ELSE LoadLoop(file.entries, <<>>, EmptyTemplates)

\* What the upward search from process.cwd() ends with: a path or null.
findConfigPath(fs) == IF fs.found THEN "config.yaml" ELSE "null"

----------------------------------------------------------------------------
(* TemplateManager *)

\* Variant: a built-in entry is not replaced by a custom one of the same name.
MergeLoop_BuiltinWins(templates, order, custom) ==
    [n \in (DOMAIN templates) \cup {order[i] : i \in 1..Len(order)} |->
        IF n \in DOMAIN templates THEN templates[n] ELSE custom[n]]

\* for (const [name, template] of Object.entries(customConfig.templates))
\*     templates[name] = template
RECURSIVE MergeLoop(_, _, _)
MergeLoop(templates, order, custom) ==
    IF order = <<>> THEN templates
    ELSE MergeLoop(Put(templates, Head(order), custom[Head(order)]),
                   Tail(order), custom)

\* Variant: a failed load leaves no templates at all.
loadTemplates_NoFallback(b, fs) ==
    IF findConfigPath(fs) # "null" /\ loadConfig(fs.file).threw
    THEN EmptyTemplates
    ELSE IF findConfigPath(fs) # "null"
    THEN MergeLoop(b, loadConfig(fs.file).order,
                   loadConfig(fs.file).templates)
    ELSE b

\* b: what BUILTIN_TEMPLATES holds when the load cycle starts
loadTemplates(b, fs) ==
    LET templates == b
        configPath == findConfigPath(fs)
    IN  IF configPath # "null"
        THEN LET customConfig == loadConfig(fs.file)
             IN  IF customConfig.threw
                 THEN templates    \* catch: built-in templates only
                 ELSE MergeLoop(templates, customConfig.order,
                                customConfig.templates)
        ELSE templates

\* Variant: const templates = BUILTIN_TEMPLATES, so the merge writes into the
\* module's object.
BuiltinsAfterLoad_Aliased(b, templates) == templates

\* { ...BUILTIN_TEMPLATES } is a new object: the assignments of the merge land
\* in the copy and the module's object keeps what it held
BuiltinsAfterLoad(b, templates) == b

NoCache == [present |-> FALSE, templates |-> EmptyTemplates]

\* Variant: Object.assign(this.cache, templates) on the cached object.
StoreCache_AssignInto(c, templates) ==
    [present |-> TRUE,
     templates |->
         [n \in (DOMAIN c.templates) \cup (DOMAIN templates) |->
             IF n \in DOMAIN templates THEN templates[n] ELSE c.templates[n]]]

\* this.cache = templates: the field is pointed at the object just built
StoreCache(c, templates) == [present |-> TRUE, templates |-> templates]

\* Variant: a cached set whose age equals the TTL is still served.
CacheValid_Closed(c, ct, ttl, t) == c.present /\ t - ct <= ttl

\* this.cache && now - this.cacheTime < this.cacheTTL
CacheValid(c, ct, ttl, t) == c.present /\ t - ct < ttl

\* Variant: the cache is replaced but cacheTime keeps its old value.
loadTemplatesWithCache_NoRestamp(c, ct, ttl, t, b, fs) ==
    IF CacheValid(c, ct, ttl, t)
    THEN [cache |-> c, cacheTime |-> ct, templates |-> c.templates, loads |-> 0,
          builtins |-> b]
    ELSE LET templates == loadTemplates(b, fs)
         IN  [cache |-> StoreCache(c, templates),
              cacheTime |-> ct, templates |-> templates, loads |-> 1,
              builtins |-> BuiltinsAfterLoad(b, templates)]

\* c = this.cache, ct = this.cacheTime, ttl = this.cacheTTL, t = Date.now(),
\* b = BUILTIN_TEMPLATES
loadTemplatesWithCache(c, ct, ttl, t, b, fs) ==
    IF CacheValid(c, ct, ttl, t)
    THEN [cache |-> c, cacheTime |-> ct, templates |-> c.templates, loads |-> 0,
          builtins |-> b]
    ELSE LET templates == loadTemplates(b, fs)
         IN  [cache |-> StoreCache(c, templates),
              cacheTime |-> t, templates |-> templates, loads |-> 1,
              builtins |-> BuiltinsAfterLoad(b, templates)]

\* Variant: only the timestamp is cleared, the cached set is kept.
reloadConfig_KeepsCache(c, ct) == [cache |-> c, cacheTime |-> 0]

reloadConfig(c, ct) == [cache |-> NoCache, cacheTime |-> 0]

\* custom templates a load cycle obtains from the file system
CustomLoaded(fs) ==
    IF findConfigPath(fs) # "null" /\ ~loadConfig(fs.file).threw
    THEN loadConfig(fs.file).templates
    ELSE EmptyTemplates

----------------------------------------------------------------------------
(* Inputs of the manager *)

CONFIG_CACHE_TTL == 2   \* 60000 ms; one clock tick is 30 s

TTLs == 0..CONFIG_CACHE_TTL

CustomTemplateRaw ==
    RawTemplate(YString("custom"), YString(""), YNumber(2), YBoolean(FALSE))

OverrideTscRaw ==
    RawTemplate(YString("custom tsc"), YString(""), YNumber(2), YUndefined)

BadRegexRaw ==
    RawTemplate(YString("bad"), YString("["), YNumber(1), YUndefined)

\* tail_paragraphs: .nan
NaNTailRaw ==
    RawTemplate(YString("nan tail"), YString("E"), YNaN, YUndefined)

NoConfig == [found |-> FALSE, file |-> ConfigFile("unreadable", <<>>)]

Found(file) == [found |-> TRUE, file |-> file]

ConfigStates ==
    { NoConfig,
      Found(ConfigFile("unreadable", <<>>)),
      Found(ConfigFile("unparsable", <<>>)),
      Found(ConfigFile("no_templates", <<>>)),
      Found(ConfigFile("ok", <<Entry("custom1", NaNTailRaw)>>)),
      Found(ConfigFile("ok", <<Entry("tsc", OverrideTscRaw),
                               Entry("bad", BadRegexRaw),
                               Entry("custom1", CustomTemplateRaw)>>)) }

TemplateNames == {"tsc", "vitest", "custom1", "bad", "nope", "constructor"}

NoTemplate == Template("", "", 0, "undefined")

\* pre: what the call found (cache present, its age, reload pending)
Last(op, loads, ret, found, template, pre) ==
    [op |-> op, name |-> "", loads |-> loads, ret |-> ret, found |-> found,
     template |-> template, pre |-> pre]

NoPre == [present |-> FALSE, age |-> 0, reload |-> "no", overrides |-> FALSE]

Idle(op) == Last(op, 0, EmptyTemplates, FALSE, NoTemplate, NoPre)

----------------------------------------------------------------------------
(* TemplateManager driven through its public methods *)

InitManagerState ==
    /\ now = 0
    /\ fsConfig \in ConfigStates
    /\ cache = NoCache
    /\ cacheTime = 0
    /\ loaded = EmptyTemplates
    /\ builtins = BUILTIN_TEMPLATES
    /\ reloadPending = "no"
    /\ last = Idle("new")

----------------------------------------------------------------------------
(* Filter harness: apply the pure functions to every bounded input *)

InitFilter ==
    /\ fpc = "init"
    /\ fRaw \in RawOutputs
    /\ fTemplate \in FilterTemplates
    /\ fParagraphs = <<>>
    /\ fResult = <<>>
    /\ fCalls = <<>>
    /\ now = 0
    /\ fsConfig = [found |-> FALSE]
    /\ cacheTTL = 0
    /\ cache = [present |-> FALSE]
    /\ cacheTime = 0
    /\ builtins = BUILTIN_TEMPLATES
    /\ loaded = <<>>
    /\ reloadPending = "no"
    /\ last = [op |-> "new"]
    /\ pc = "off"
    /\ req = <<>>
    /\ execResult = <<>>
    /\ selected = <<>>
    /\ pending = <<>>
    /\ written = <<>>
    /\ resp = <<>>
    /\ InitUnitsIdle

CallParseParagraphs ==
    /\ fpc = "init"
    /\ fParagraphs' = parseParagraphs(fRaw)
    /\ fpc' = "parsed"
    /\ UNCHANGED <<fRaw, fTemplate, fResult, fCalls>>
    /\ UNCHANGED <<managerVars, serverVars, unitVars>>

CallFilterOutput ==
    /\ fpc = "parsed"
    /\ fResult' = filterOutput(fRaw, fTemplate)
    /\ fpc' = "filtered"
    /\ UNCHANGED <<fRaw, fTemplate, fParagraphs, fCalls>>
    /\ UNCHANGED <<managerVars, serverVars, unitVars>>

NextFilter == CallParseParagraphs \/ CallFilterOutput

SpecFilter == InitFilter /\ [][NextFilter]_vars

InitFilterIdle ==
    /\ fpc = "off"
    /\ fRaw = <<>>
    /\ fTemplate = NoTemplate
    /\ fParagraphs = <<>>
    /\ fResult = <<>>
    /\ fCalls = <<>>

InitManager ==
    /\ InitFilterIdle
    /\ InitUnitsIdle
    /\ InitManagerState
    /\ cacheTTL \in TTLs
    /\ pc = "off"
    /\ req = <<>>
    /\ execResult = <<>>
    /\ selected = <<>>
    /\ pending = <<>>
    /\ written = <<>>
    /\ resp = <<>>

\* time passes
Tick ==
    /\ now < MaxTime
    /\ now' = now + 1
    /\ last' = Idle("tick")
    /\ UNCHANGED <<fsConfig, cacheTTL, cache, cacheTime, loaded, builtins,
                   reloadPending>>

\* the configuration file is created, edited or removed
ChangeConfig ==
    /\ \E fs \in ConfigStates \ {fsConfig} : fsConfig' = fs
    /\ last' = Idle("edit")
    /\ UNCHANGED <<now, cacheTTL, cache, cacheTime, loaded, builtins,
                   reloadPending>>

\* effect of one loadTemplatesWithCache() call on the manager's fields
CacheAccess(r) ==
    /\ cache' = r.cache
    /\ cacheTime' = r.cacheTime
    /\ loaded' = IF r.loads > 0 THEN CustomLoaded(fsConfig) ELSE loaded
    /\ builtins' = r.builtins
    /\ reloadPending' = "no"

\* overrides: the cached set holds a custom template under a built-in name
Pre == [present |-> cache.present, age |-> now - cacheTime,
        reload |-> reloadPending,
        overrides |-> /\ cache.present
                      /\ \E n \in DOMAIN BUILTIN_TEMPLATES :
                             cache.templates[n] # BUILTIN_TEMPLATES[n]]

getAvailableTemplates ==
    LET r == loadTemplatesWithCache(cache, cacheTime, cacheTTL, now, builtins,
                                    fsConfig)
    IN  /\ CacheAccess(r)
        /\ last' = Last("getAvailableTemplates", r.loads, r.templates,
                        FALSE, NoTemplate, Pre)
        /\ UNCHANGED <<now, fsConfig, cacheTTL>>

getTemplate(name) ==
    LET r == loadTemplatesWithCache(cache, cacheTime, cacheTTL, now, builtins,
                                    fsConfig)
        templates == r.templates
    IN  /\ CacheAccess(r)
        /\ last' = [Last("getTemplate", r.loads, templates,
                         Get(templates, name).defined,
                         Get(templates, name).value, Pre)
                    EXCEPT !.name = name]
        /\ UNCHANGED <<now, fsConfig, cacheTTL>>

ReloadConfig ==
    LET r == reloadConfig(cache, cacheTime)
    IN  /\ cache' = r.cache
        /\ cacheTime' = r.cacheTime
        /\ reloadPending' =
               IF ~cache.present THEN "absent"
               ELSE IF now - cacheTime < cacheTTL THEN "valid"
               ELSE "expired"
        /\ last' = Idle("reloadConfig")
        /\ UNCHANGED <<now, fsConfig, cacheTTL, loaded, builtins>>

NextManager ==
    \/ Tick /\ UNCHANGED <<filterVars, serverVars, unitVars>>
    \/ ChangeConfig /\ UNCHANGED <<filterVars, serverVars, unitVars>>
    \/ getAvailableTemplates /\ UNCHANGED <<filterVars, serverVars, unitVars>>
    \/ (\E name \in TemplateNames : getTemplate(name))
           /\ UNCHANGED <<filterVars, serverVars, unitVars>>
    \/ ReloadConfig /\ UNCHANGED <<filterVars, serverVars, unitVars>>

SpecManager == InitManager /\ [][NextManager]_vars

----------------------------------------------------------------------------
(* MCP server: the execute_command and list_templates handlers *)

SUPPRESSED ==
    <<"Command completed successfully (output suppressed - exit code 0)">>

\* JavaScript truthiness of a request argument
Truthy(v) ==
    CASE v.type = "undefined" -> FALSE
      [] v.type = "string"    -> v.s # ""
      [] v.type = "boolean"   -> v.s = "true"
      [] v.type = "number"    -> v.s = "half" \/ (v.s = "" /\ v.n # 0)
      [] OTHER                -> TRUE

Request(command, template, suppress, output_file) ==
    [command |-> command, template |-> template,
     suppress_output_on_success |-> suppress, output_file |-> output_file]

ExecutionResult(exitCode, output) == [exitCode |-> exitCode, output |-> output]

Response(kind, res, code, out, used, file, fileError, error, available) ==
    [kind |-> kind, result |-> res, exit_code |-> code, output |-> out,
     template_used |-> used, output_file |-> file,
     output_file_error |-> fileError, error |-> error,
     available |-> available]

NoResponse == Response("none", "", 0, <<>>, "null", "null", "null", <<>>, {})

\* catch (error) { return { content: [{ error: message }], isError: true } }
\* message: the parts of the text; available: the names joined into it
ErrorResponse(message, available) ==
    Response("error", "", 0, <<>>, "null", "null", "null", message, available)

\* Variant: result is derived from the text that is returned.
StructuredResponse_ResultFromOutput(r, output, used, file, fileError) ==
    Response("ok", IF output = SUPPRESSED THEN "success" ELSE "failure",
             r.exitCode, output, used, file, fileError, <<>>, {})

\* return { result, exit_code, output, template_used, output_file, ... }
\* output = filteredOutput, used = templateUsed, file = savedOutputFile
StructuredResponse(r, output, used, file, fileError) ==
    Response("ok", IF r.exitCode = 0 THEN "success" ELSE "failure",
             r.exitCode, output, used, file, fileError, <<>>, {})

COMMAND_REQUIRED == <<"command parameter is required and must be a string">>

\* `Template "${template}" not found. Use list_templates tool to see available
\* templates. Available: ${availableTemplates}`
TemplateNotFound(name) ==
    <<"Template \"", name, "\" not found. Use list_templates tool to see available templates. Available: ">>

\* Variant: only the type of the argument is checked.
CommandRejected_TypeOnly(command) == command.type # "string"

\* !command || typeof command !== "string"
CommandRejected(command) == ~Truthy(command) \/ command.type # "string"

\* suppress_output_on_success !== undefined ? suppress_output_on_success : true
SuppressOutputOnSuccess(arg) == IF arg.type # "undefined" THEN Truthy(arg) ELSE TRUE

\* Variant: the exit code is not consulted.
ShouldSuppress_IgnoresExitCode(flag, exitCode, applied, templateObj) ==
    IF applied /\ templateObj.suppress_output_on_success # "undefined"
    THEN templateObj.suppress_output_on_success = "true"
    ELSE flag

\* shouldSuppress as it stands when "Apply suppression" is reached
\* (flag = suppressOutputOnSuccess, applied = a template was resolved)
ShouldSuppress(flag, exitCode, applied, templateObj) ==
    IF applied /\ templateObj.suppress_output_on_success # "undefined"
    THEN templateObj.suppress_output_on_success = "true" /\ exitCode = 0
    ELSE flag /\ exitCode = 0

\* template && typeof template === "string"
TemplateRequested(r) == Truthy(r.template) /\ r.template.type = "string"

\* Variant: a failed lookup is not noticed.
TemplateMissing_Never(got) == FALSE

\* if (!templateObj)
TemplateMissing(got) == ~got.defined

\* throw new Error(`Template "${template}" not found ...`): m2 is the
\* getAvailableTemplates() access made only to build the message
TemplateNotFoundThrown(m1, m2) ==
    [threw |-> TRUE, output |-> <<>>,
     templateUsed |-> "null", templateObj |-> NoTemplate,
     available |-> DOMAIN m2.templates,
     cache |-> m2.cache, cacheTime |-> m2.cacheTime, builtins |-> m2.builtins,
     loads |-> m1.loads + m2.loads]

\* filterOutput(result.output, templateObj) and the suppression decision
TemplateApplied(r, res, flag, m1, templateObj) ==
    [threw |-> FALSE,
     output |-> IF ShouldSuppress(flag, res.exitCode, TRUE, templateObj)
                THEN SUPPRESSED ELSE filterOutput(res.output, templateObj),
     templateUsed |-> r.template.s, templateObj |-> templateObj,
     available |-> {},
     cache |-> m1.cache, cacheTime |-> m1.cacheTime, builtins |-> m1.builtins,
     loads |-> m1.loads]

\* m1 is the getTemplate() access
AfterGetTemplate(r, res, flag, m1, ttl, t, fs) ==
    IF TemplateMissing(Get(m1.templates, r.template.s))
    THEN TemplateNotFoundThrown(m1,
             loadTemplatesWithCache(m1.cache, m1.cacheTime, ttl, t,
                                    m1.builtins, fs))
    ELSE TemplateApplied(r, res, flag, m1, Get(m1.templates, r.template.s).value)

\* The handler from the resolution of executeCommand up to the output-file
\* step.
AfterExecute(r, res, c, ct, ttl, t, b, fs) ==
    IF TemplateRequested(r)
    THEN AfterGetTemplate(r, res,
             SuppressOutputOnSuccess(r.suppress_output_on_success),
             loadTemplatesWithCache(c, ct, ttl, t, b, fs), ttl, t, fs)
    ELSE [threw |-> FALSE,
          output |-> IF ShouldSuppress(
                            SuppressOutputOnSuccess(r.suppress_output_on_success),
                            res.exitCode, FALSE, NoTemplate)
                     THEN SUPPRESSED ELSE res.output,
          templateUsed |-> "null", templateObj |-> NoTemplate,
          available |-> {},
          cache |-> c, cacheTime |-> ct, builtins |-> b, loads |-> 0]

\* resolveOutputPath + writeFile: what the file system lets happen
\*   "dir"    existing directory: timestamped file inside it
\*   "file"   existing file: overwritten
\*   "enoent" missing path: created as a directory, timestamped file inside
\*   "stat_failed", "mkdir_failed", "write_failed": the step throws
FileOutcomes == {"dir", "file", "enoent", "stat_failed", "mkdir_failed",
                 "write_failed"}

\* message of the error caught around the output-file step
FileErrorMessage(outcome) ==
    CASE outcome = "stat_failed"  -> "EACCES: stat"
      [] outcome = "mkdir_failed" -> "EACCES: mkdir"
      [] outcome = "write_failed" -> "EACCES: open"
      [] OTHER                    -> "null"

\* resolveOutputPath(outputPath) for the outcomes in which it returns
resolveOutputPath(outputPath, outcome) ==
    IF outcome = "file" THEN outputPath ELSE "/tmp/out/command-output-<ts>.txt"

NoRequest == Request(YUndefined, YUndefined, YUndefined, YUndefined)

NoResult == ExecutionResult(0, <<>>)

NotSelected == [applied |-> FALSE, template |-> NoTemplate]

NoPending == [output |-> <<>>, templateUsed |-> "null"]

\* error: the message of the error the file system raised, "null" if none
NotWritten == [done |-> FALSE, path |-> "null", content |-> <<>>,
               error |-> "null"]

\* Variant: the output-file step is skipped.
OutputFileRequested_Never(r) == FALSE

\* if (output_file)
OutputFileRequested(r) == Truthy(r.output_file)

\* Variant: the text is trimmed before it is written.
SavedContent_Trimmed(result) == Trim(result.output)

\* the data handed to writeFile(resolvedPath, result.output, "utf-8")
SavedContent(result) == result.output

\* Variant: savedOutputFile is assigned before the write is attempted.
OutputFile_KeepsPathOnFailure(result, outputPath, outcome) ==
    IF outcome \in {"dir", "file", "enoent"}
    THEN [savedOutputFile |-> resolveOutputPath(outputPath, outcome),
          outputFileError |-> "null",
          written |-> [done |-> TRUE,
                       path |-> resolveOutputPath(outputPath, outcome),
                       content |-> SavedContent(result), error |-> "null"]]
    ELSE [savedOutputFile |->
              IF outcome = "write_failed"
              THEN resolveOutputPath(outputPath, "dir") ELSE "null",
          outputFileError |-> FileErrorMessage(outcome),
          written |-> [NotWritten EXCEPT !.error = FileErrorMessage(outcome)]]

\* try { resolvedPath = await resolveOutputPath(output_file);
\*       await writeFile(...); savedOutputFile = resolvedPath }
\* catch (err) { outputFileError = err.message }
OutputFile(result, outputPath, outcome) ==
    IF outcome \in {"dir", "file", "enoent"}
    THEN [savedOutputFile |-> resolveOutputPath(outputPath, outcome),
          outputFileError |-> "null",
          written |-> [done |-> TRUE,
                       path |-> resolveOutputPath(outputPath, outcome),
                       content |-> SavedContent(result), error |-> "null"]]
    ELSE [savedOutputFile |-> "null",
          outputFileError |-> FileErrorMessage(outcome),
          written |-> [NotWritten EXCEPT !.error = FileErrorMessage(outcome)]]

----------------------------------------------------------------------------
(* Inputs of the server *)

CommandArgs == {YString("npm test"), YString(""), YUndefined, YNumber(7)}

TemplateArgs == {YUndefined, YString(""), YString("tsc"), YString("custom1"),
                 YString("nope"), YString("constructor")}

SuppressArgs == {YUndefined, YBoolean(TRUE), YBoolean(FALSE)}

OutputFileArgs == {YUndefined, YString("/tmp/out")}

ExitCodes == {0, 1, 2}

ExecOutputs ==
    { <<>>,
      <<"a", NL>>,
      <<"a", NL, "E", NL, NL, "a", NL>>,
      <<" ", NL>> }

----------------------------------------------------------------------------
(* The server: one TemplateManager with the default TTL, one request slot *)

Init ==
    /\ InitFilterIdle
    /\ InitUnitsIdle
    /\ InitManagerState
    /\ cacheTTL = CONFIG_CACHE_TTL
    /\ pc = "idle"
    /\ req = NoRequest
    /\ execResult = NoResult
    /\ selected = NotSelected
    /\ pending = NoPending
    /\ written = NotWritten
    /\ resp = NoResponse

\* CallTool execute_command arrives: argument check, then executeCommand starts
ReceiveExecuteCommand ==
    /\ pc = "idle"
    /\ \E command \in CommandArgs, template \in TemplateArgs,
          suppress \in SuppressArgs, output_file \in OutputFileArgs :
          LET r == Request(command, template, suppress, output_file)
          IN  IF CommandRejected(command)
              THEN /\ pc' = "done"
                   /\ req' = r
                   /\ resp' = ErrorResponse(COMMAND_REQUIRED, {})
              ELSE /\ pc' = "executing"
                   /\ req' = r
                   /\ resp' = NoResponse
    /\ execResult' = NoResult
    /\ selected' = NotSelected
    /\ pending' = NoPending
    /\ written' = NotWritten
    /\ last' = Idle("execute_command")
    /\ UNCHANGED <<now, fsConfig, cacheTTL, cache, cacheTime, loaded, builtins,
                   reloadPending>>

\* the handler's steps once result = res is in hand; h is what the lookup,
\* the filter and the suppression decision produced
ResumeAfterExecute(res, h) ==
    /\ execResult' = res
    /\ selected' = [applied |-> h.templateUsed # "null",
                    template |-> h.templateObj]
    /\ cache' = h.cache
    /\ cacheTime' = h.cacheTime
    /\ loaded' = IF h.loads > 0 THEN CustomLoaded(fsConfig) ELSE loaded
    /\ builtins' = h.builtins
    /\ last' = Idle("execute_command")
    /\ IF h.threw
       THEN /\ pc' = "done"
            /\ pending' = NoPending
            /\ resp' = ErrorResponse(TemplateNotFound(req.template.s),
                                      h.available)
       ELSE IF OutputFileRequested(req)
       THEN /\ pc' = "writing"
            /\ pending' = [output |-> h.output,
                           templateUsed |-> h.templateUsed]
            /\ resp' = NoResponse
       ELSE /\ pc' = "done"
            /\ pending' = NoPending
            /\ resp' = StructuredResponse(res, h.output, h.templateUsed,
                                          "null", "null")

\* await executeCommand(...) resolves; template lookup, filtering, suppression
ExecuteCommandResolves ==
    /\ pc = "executing"
    /\ \E exitCode \in ExitCodes, output \in ExecOutputs :
          ResumeAfterExecute(ExecutionResult(exitCode, output),
              AfterExecute(req, ExecutionResult(exitCode, output), cache,
                           cacheTime, cacheTTL, now, builtins, fsConfig))
    /\ UNCHANGED <<now, fsConfig, cacheTTL, reloadPending, req, written>>

\* await resolveOutputPath / await writeFile settle; the response is returned
OutputFileStep ==
    /\ pc = "writing"
    /\ \E outcome \in FileOutcomes :
          LET o == OutputFile(execResult, req.output_file.s, outcome)
          IN  /\ written' = o.written
              /\ resp' = StructuredResponse(execResult, pending.output,
                             pending.templateUsed, o.savedOutputFile,
                             o.outputFileError)
    /\ pc' = "done"
    /\ pending' = NoPending
    /\ last' = Idle("writeFile")
    /\ UNCHANGED <<now, fsConfig, cacheTTL, cache, cacheTime, loaded, builtins,
                   reloadPending, req, execResult, selected>>

\* the response has been handed to the transport; the slot is free again
ReturnResponse ==
    /\ pc = "done"
    /\ pc' = "idle"
    /\ req' = NoRequest
    /\ execResult' = NoResult
    /\ selected' = NotSelected
    /\ pending' = NoPending
    /\ written' = NotWritten
    /\ resp' = NoResponse
    /\ last' = Idle("return")
    /\ UNCHANGED <<now, fsConfig, cacheTTL, cache, cacheTime, loaded, builtins,
                   reloadPending>>

\* ListTools / CallTool list_templates: templateManager.getAvailableTemplates()
ListTemplates == getAvailableTemplates /\ UNCHANGED serverVars

Next ==
    \/ Tick /\ UNCHANGED <<filterVars, serverVars, unitVars>>
    \/ ChangeConfig /\ UNCHANGED <<filterVars, serverVars, unitVars>>
    \/ ListTemplates /\ UNCHANGED <<filterVars, unitVars>>
    \/ ReceiveExecuteCommand /\ UNCHANGED <<filterVars, unitVars>>
    \/ ExecuteCommandResolves /\ UNCHANGED <<filterVars, unitVars>>
    \/ OutputFileStep /\ UNCHANGED <<filterVars, unitVars>>
    \/ ReturnResponse /\ UNCHANGED <<filterVars, unitVars>>

Spec == Init /\ [][Next]_vars

----------------------------------------------------------------------------
(* Vocabulary of the filter properties, stated without the code's loops *)

IsBlankLine(line) == \A i \in 1..Len(line) : line[i] = " "

IsBlankText(text) == \A i \in 1..Len(text) : text[i] \in {" ", NL}

\* the k-th smallest element of a finite set of integers
Kth(S, k) == CHOOSE i \in S : Cardinality({j \in S : j < i}) = k - 1

\* the subsequence of s at the positions in S, in order
AtPositions(s, S) == [k \in 1..Cardinality(S) |-> s[Kth(S, k)]]

NonBlankPositions(lines) == {i \in 1..Len(lines) : ~IsBlankLine(lines[i])}

\* s with every element after its first occurrence removed
KeepFirst(s) ==
    AtPositions(s, {i \in 1..Len(s) : \A j \in 1..(i - 1) : s[j] # s[i]})

Min(a, b) == IF a < b THEN a ELSE b

\* the last n paragraphs (all of them when n exceeds their number)
LastParagraphs(ps, n) ==
    LET m == Min(n, Len(ps)) IN [k \in 1..m |-> ps[Len(ps) - m + k]]

RECURSIVE LengthsUpTo(_, _)
LengthsUpTo(ps, p) == IF p = 0 THEN 0 ELSE Len(ps[p]) + LengthsUpTo(ps, p - 1)

\* index of the paragraph holding the k-th line of Flat(ps)
ParagraphOf(ps, k) ==
    CHOOSE p \in 1..Len(ps) : LengthsUpTo(ps, p - 1) < k /\ k <= LengthsUpTo(ps, p)

NoRepeats(s) == \A i, j \in 1..Len(s) : i # j => s[i] # s[j]

FirstIndex(s, x) == CHOOSE i \in 1..Len(s) : s[i] = x /\ \A j \in 1..(i - 1) : s[j] # x

F_Compiles == RegexCompiles(fTemplate.include_regex)

F_N == Max(0, fTemplate.tail_paragraphs)

F_Matches(line) == RegexTest(fTemplate.include_regex, line)

----------------------------------------------------------------------------
(* Filter properties *)

\* C3 (as stated): for non-blank raw output and a compilable regex the result
\* is the newline-join of ALL lines of the raw output that match the regex,
\* followed by the lines of the last N paragraphs, first occurrences only.
C3_AsStated ==
    (fpc = "filtered" /\ ~IsBlankText(fRaw) /\ F_Compiles) =>
        /\ fResult = Join(KeepFirst(
               SelectSeq(Split(fRaw), F_Matches)
               \o Flat(LastParagraphs(fParagraphs, F_N))))
        /\ NoRepeats(Split(fResult))

\* C3 (amended): for non-blank raw output and a compilable regex the result is
\* the newline-join of all NON-BLANK lines matching the regex in top-to-bottom
\* order, followed by the lines of the last N = max(0, tail_paragraphs)
\* paragraphs, with every line after its first occurrence removed; no line
\* text occurs twice in the result.
C3_FilterIsMatchedThenTailDeduplicated ==
    (fpc = "filtered" /\ ~IsBlankText(fRaw) /\ F_Compiles) =>
        /\ fResult = Join(KeepFirst(
               SelectSeq(AtPositions(Split(fRaw), NonBlankPositions(Split(fRaw))),
                         F_Matches)
               \o Flat(LastParagraphs(fParagraphs, F_N))))
        /\ NoRepeats(Split(fResult))

\* a line is both matched and in the tail, and the tail is a proper suffix
C3_Witness ==
    /\ fpc = "filtered"
    /\ fTemplate.include_regex = "E"
    /\ fTemplate.tail_paragraphs = 1
    /\ fRaw = <<"E", NL, NL, "a", NL, "E">>
    /\ Len(fParagraphs) = 2
    /\ fResult = <<"E", NL, "a">>

\* C4 (as stated): with tail_paragraphs = 0 the result is exactly the distinct
\* lines matching R, in first-occurrence order.
C4_AsStated ==
    (fpc = "filtered" /\ F_Compiles /\ fTemplate.tail_paragraphs = 0) =>
        fResult = Join(KeepFirst(SelectSeq(Split(fRaw), F_Matches)))

\* C4 (amended): with tail_paragraphs = 0 the result is exactly the distinct
\* NON-BLANK lines matching R, in first-occurrence order, duplicates dropped
\* (the empty string when no non-blank line matches).
C4_ZeroTailIsDistinctMatches ==
    (fpc = "filtered" /\ F_Compiles /\ fTemplate.tail_paragraphs = 0) =>
        LET lines == Split(fRaw)
            hits == {i \in 1..Len(lines) :
                        ~IsBlankLine(lines[i]) /\ F_Matches(lines[i])}
            first == {i \in hits : \A j \in hits : j < i => lines[j] # lines[i]}
        IN  /\ fResult = Join(AtPositions(lines, first))
            /\ (hits = {} => fResult = <<>>)

C4_Witness ==
    /\ fpc = "filtered"
    /\ fTemplate.tail_paragraphs = 0
    /\ fTemplate.include_regex = "E"
    /\ fRaw = <<"E", NL, "a", NL, " ", "E", NL, NL, "E">>
    /\ fResult = <<"E", NL, " ", "E">>

\* C5 (as stated): for tail_paragraphs >= 0 the lines of the result appear in
\* the same relative order in which they first appear in the raw output.
C5_ResultKeepsRawOrder ==
    (fpc = "filtered" /\ F_Compiles /\ fTemplate.tail_paragraphs >= 0
        /\ fResult # <<>>) =>
        LET out == Split(fResult)
            raw == Split(fRaw)
        IN  \A i, j \in 1..Len(out) :
                i < j => FirstIndex(raw, out[i]) < FirstIndex(raw, out[j])

\* C6: parseParagraphs returns, in order, exactly the maximal runs of
\* consecutive non-blank lines: flattening gives the non-blank lines of the
\* input in order and untrimmed, no paragraph is empty or holds a blank line,
\* two non-blank lines share a paragraph iff no blank line lies between them,
\* and empty or all-blank input gives the empty list.
C6_ParagraphsAreMaximalNonBlankRuns ==
    fpc # "init" =>
        LET lines == Split(fRaw)
            nb == NonBlankPositions(lines)
            flat == Flat(fParagraphs)
        IN  /\ flat = AtPositions(lines, nb)
            /\ \A p \in 1..Len(fParagraphs) :
                   /\ fParagraphs[p] # <<>>
                   /\ \A i \in 1..Len(fParagraphs[p]) :
                          ~IsBlankLine(fParagraphs[p][i])
            /\ \A j, k \in 1..Len(flat) :
                   j < k =>
                       ((ParagraphOf(fParagraphs, j) = ParagraphOf(fParagraphs, k))
                        <=> (\A i \in Kth(nb, j)..Kth(nb, k) : i \in nb))
            /\ (IsBlankText(fRaw) => fParagraphs = <<>>)

\* two paragraphs split by a run of two blank lines, one line kept untrimmed
C6_Witness ==
    /\ fpc = "parsed"
    /\ fRaw = <<"a", NL, " ", "E", NL, NL, " ", NL, "E">>
    /\ fParagraphs = << << <<"a">>, <<" ", "E">> >>, << <<"E">> >> >>

\* C7: when include_regex does not compile and the raw output is not blank,
\* filterOutput returns the raw output unchanged.
C7_InvalidRegexReturnsRaw ==
    (fpc = "filtered" /\ ~F_Compiles /\ ~IsBlankText(fRaw)) => fResult = fRaw

\* raw output with a blank line and a duplicated line comes back verbatim
C7_Witness ==
    /\ fpc = "filtered"
    /\ ~F_Compiles
    /\ fRaw = <<"a", NL, NL, "a", NL, " ">>
    /\ fResult = fRaw

----------------------------------------------------------------------------
(* TemplateManager properties *)

Gets == {"getAvailableTemplates", "getTemplate"}

\* the built-in set overlaid by a custom set, stated pointwise
IsOverlay(merged, builtin, custom) ==
    /\ DOMAIN merged = (DOMAIN builtin) \cup (DOMAIN custom)
    /\ \A n \in DOMAIN merged :
           merged[n] = IF n \in DOMAIN custom THEN custom[n] ELSE builtin[n]

\* C8: a get call made while the cached set is within its TTL performs zero
\* load cycles and returns the cached set, leaving the cache as it is; a get
\* call that finds the cached set with its TTL elapsed performs exactly one
\* load cycle, returns the newly cached set and re-stamps the cache.
C8_CacheHitWithinTTLOneLoadAfter ==
    [][(last'.op \in Gets /\ cache.present) =>
          IF now - cacheTime < cacheTTL
          THEN /\ last'.loads = 0
               /\ last'.ret = cache.templates
               /\ cache' = cache
               /\ cacheTime' = cacheTime
               /\ loaded' = loaded
          ELSE /\ last'.loads = 1
               /\ cache'.present
               /\ last'.ret = cache'.templates
               /\ cacheTime' = now]_vars

\* a get that found a cache older than a positive TTL and re-stamped it
C8_Witness ==
    /\ last.op = "getAvailableTemplates"
    /\ cacheTTL > 0
    /\ last.pre.present
    /\ last.pre.reload = "no"
    /\ last.pre.age >= cacheTTL
    /\ last.loads = 1
    /\ cacheTime = now

\* C9: reloadConfig() itself performs no load and leaves no cache; the next
\* get call after it, whatever the age of the discarded cache, performs
\* exactly one fresh load cycle and returns that freshly loaded set.
C9_ReloadForcesFreshLoad ==
    [][/\ (last'.op = "reloadConfig") =>
              /\ last'.loads = 0
              /\ loaded' = loaded
              /\ ~cache'.present
       /\ (last'.op \in Gets /\ reloadPending # "no") =>
              /\ last'.loads = 1
              /\ IsOverlay(last'.ret, BUILTIN_TEMPLATES, CustomLoaded(fsConfig))
              /\ cache' = [present |-> TRUE, templates |-> last'.ret]]_vars

\* a get right after reloadConfig() discarded a cache that was within its TTL
C9_Witness ==
    /\ last.op \in Gets
    /\ last.pre.reload = "valid"
    /\ last.loads = 1
    /\ cache.present

\* C10: the set returned by getAvailableTemplates is the built-in set overlaid
\* by the loaded custom set: its names are the union, and a name in both maps
\* to the custom template as a whole.
C10_MergedIsBuiltinOverlaidByCustom ==
    last.op = "getAvailableTemplates" =>
        IsOverlay(last.ret, BUILTIN_TEMPLATES, loaded)

\* "tsc" is overridden with every field different, next to a custom-only and
\* a built-in-only name
C10_Witness ==
    /\ last.op = "getAvailableTemplates"
    /\ DOMAIN loaded = {"tsc", "custom1"}
    /\ last.ret["tsc"] = loaded["tsc"]
    /\ last.ret["tsc"].description # BUILTIN_TEMPLATES["tsc"].description
    /\ last.ret["tsc"].include_regex # BUILTIN_TEMPLATES["tsc"].include_regex
    /\ last.ret["tsc"].tail_paragraphs # BUILTIN_TEMPLATES["tsc"].tail_paragraphs
    /\ last.ret["vitest"] = BUILTIN_TEMPLATES["vitest"]
    /\ last.ret["custom1"] = loaded["custom1"]

----------------------------------------------------------------------------
(* execute_command properties *)

\* the request's suppress flag, true when the argument is left out
RequestFlag == IF req.suppress_output_on_success.type = "undefined" THEN TRUE
               ELSE req.suppress_output_on_success.s = "true"

\* the selected template's override if it defines one, else the request flag
EffectiveSuppression ==
    IF selected.applied /\ selected.template.suppress_output_on_success # "undefined"
    THEN selected.template.suppress_output_on_success = "true"
    ELSE RequestFlag

\* a template is named by the request (an empty name names none)
TemplateGiven == req.template.type = "string" /\ req.template.s # ""

C2_ResultFollowsExitCode ==
    resp.kind = "ok" =>
        /\ resp.exit_code = execResult.exitCode
        /\ resp.result = IF execResult.exitCode = 0 THEN "success" ELSE "failure"

\* exit code 0 shown unsuppressed through a template while the write failed
C2_Witness ==
    /\ resp.kind = "ok"
    /\ resp.exit_code = 0
    /\ resp.result = "success"
    /\ resp.template_used = "custom1"
    /\ resp.output # SUPPRESSED
    /\ resp.output # <<>>
    /\ resp.output_file_error # "null"

----------------------------------------------------------------------------
(* Load failures *)

\* the load cycle started for fs finds a file and loadConfig throws on it
LoadRaises(fs) == findConfigPath(fs) # "null" /\ loadConfig(fs.file).threw

\* C11: a get call whose load cycle raises (the file is found but cannot be
\* read, cannot be parsed, or has no template collection) still returns: the
\* set it returns is exactly the built-in set, and that set becomes the cache,
\* stamped with the time of the call.
C11_LoadFailureFallsBackToBuiltins ==
    [][(last'.op \in Gets /\ last'.loads = 1 /\ LoadRaises(fsConfig)) =>
          /\ last'.ret = BUILTIN_TEMPLATES
          /\ cache' = [present |-> TRUE, templates |-> BUILTIN_TEMPLATES]
          /\ cacheTime' = now
          /\ loaded' = EmptyTemplates]_vars

\* a get that replaced an older cache by the built-in set because the file
\* had become unreadable
C11_Witness ==
    /\ last.op = "getTemplate"
    /\ last.loads = 1
    /\ last.pre.present
    /\ now > 0
    /\ fsConfig = Found(ConfigFile("unreadable", <<>>))
    /\ last.ret = BUILTIN_TEMPLATES
    /\ cache = [present |-> TRUE, templates |-> BUILTIN_TEMPLATES]
    /\ cacheTime = now

----------------------------------------------------------------------------
(* Config Loader driven directly: validateTemplate and loadConfig *)

MaxEntries == 3

DescriptionValues == {YString("d"), YString(""), YNumber(1), YUndefined}

RegexValues == {YString("E"), YString(""), YString("["), YNumber(1), YUndefined}

TailValues ==
    {YNumber(-1), YNumber(0), YNumber(2), YHalf(-1), YHalf(0), YHalf(1), YNaN,
     YString("1"), YBoolean(TRUE), YNull, YUndefined}

SuppressValues == {YUndefined, YBoolean(TRUE), YBoolean(FALSE)}

\* a template entry that is not a mapping: null, a string, a number
ScalarTemplate(type) ==
    [type |-> type, description |-> YUndefined, include_regex |-> YUndefined,
     tail_paragraphs |-> YUndefined, suppress_output_on_success |-> YUndefined]

RawTemplates ==
    {RawTemplate(d, r, t, so) : d \in DescriptionValues, r \in RegexValues,
                                t \in TailValues, so \in SuppressValues}
    \cup {ScalarTemplate(type) : type \in {"null", "string", "number"}}

HalfTailRaw ==
    RawTemplate(YString("half"), YString("E"), YHalf(0), YUndefined)

EntryTemplates ==
    {CustomTemplateRaw, OverrideTscRaw, BadRegexRaw, HalfTailRaw,
     ScalarTemplate("null")}

EntryNames == {"tsc", "custom1", "bad", "vitest"}

\* the entries of a YAML mapping in document order: keys are distinct
EntrySeqs ==
    UNION {{es \in [1..k -> {Entry(n, t) : n \in EntryNames,
                                           t \in EntryTemplates}] :
               \A i, j \in 1..k : i # j => es[i].name # es[j].name} :
           k \in 0..MaxEntries}

FailingKinds ==
    {"unreadable", "unparsable", "empty", "scalar", "array", "no_templates",
     "templates_scalar"}

LoaderFiles ==
    {ConfigFile(kind, <<>>) : kind \in FailingKinds}
    \cup {ConfigFile("ok", es) : es \in EntrySeqs}

InitManagerIdle ==
    /\ now = 0
    /\ fsConfig = NoConfig
    /\ cacheTTL = 0
    /\ cache = NoCache
    /\ cacheTime = 0
    /\ loaded = EmptyTemplates
    /\ builtins = BUILTIN_TEMPLATES
    /\ reloadPending = "no"
    /\ last = Idle("new")

InitServerIdle ==
    /\ pc = "off"
    /\ req = <<>>
    /\ execResult = <<>>
    /\ selected = <<>>
    /\ pending = <<>>
    /\ written = <<>>
    /\ resp = <<>>

InitLoader ==
    /\ InitFilterIdle
    /\ InitManagerIdle
    /\ InitServerIdle
    /\ \/ /\ lpc = "template"
          /\ lTemplate \in RawTemplates
          /\ lFile = <<>>
       \/ /\ lpc = "file"
          /\ lTemplate = <<>>
          /\ lFile \in LoaderFiles
    /\ lValidated = <<>>
    /\ lConfig = <<>>
    /\ InitDiscoveryIdle
    /\ InitExecutorIdle
    /\ InitConcurrentIdle

CallValidateTemplate ==
    /\ lpc = "template"
    /\ lValidated' = validateTemplate(lTemplate)
    /\ lpc' = "validated"
    /\ UNCHANGED <<lTemplate, lFile, lConfig>>
    /\ UNCHANGED <<filterVars, managerVars, serverVars, discoveryVars,
                   executorVars, concurrentVars>>

CallLoadConfig ==
    /\ lpc = "file"
    /\ lConfig' = loadConfig(lFile)
    /\ lpc' = "loaded"
    /\ UNCHANGED <<lTemplate, lFile, lValidated>>
    /\ UNCHANGED <<filterVars, managerVars, serverVars, discoveryVars,
                   executorVars, concurrentVars>>

NextLoader == CallValidateTemplate \/ CallLoadConfig

SpecLoader == InitLoader /\ [][NextLoader]_vars

----------------------------------------------------------------------------
(* Config Loader properties *)

IsNonNegativeInteger(v) == v.type = "number" /\ v.s = "" /\ v.n >= 0

CompilableString(v) == v.type = "string" /\ RegexCompiles(v.s)

\* C12: validateTemplate accepts an entry only if its description is a
\* string, its include_regex is a string that compiles and its
\* tail_paragraphs is a non-negative integer; every other entry is rejected.
C12_AcceptedOnlyWithIntegerTail ==
    (lpc = "validated" /\ lValidated.ok) =>
        /\ lTemplate.type = "object"
        /\ lTemplate.description.type = "string"
        /\ CompilableString(lTemplate.include_regex)
        /\ IsNonNegativeInteger(lTemplate.tail_paragraphs)

\* what the loader's checks accept, stated on the entry itself
PassesChecks(raw) ==
    /\ raw.type = "object"
    /\ raw.description.type = "string"
    /\ CompilableString(raw.include_regex)
    /\ raw.tail_paragraphs.type = "number"
    /\ ~LessThanZero(raw.tail_paragraphs)

PassingIndexes(entries) ==
    {i \in 1..Len(entries) : PassesChecks(entries[i].template)}

C14_StructuralErrorsThrow ==
    (lpc = "loaded" /\ lFile.kind \in FailingKinds) =>
        /\ lConfig.threw
        /\ lConfig.templates = EmptyTemplates

\* loadConfig threw on a mapping that has no templates key
C14_Witness ==
    /\ lpc = "loaded"
    /\ lFile.kind = "no_templates"
    /\ lConfig.threw

----------------------------------------------------------------------------
(* Template-level suppression override *)

\* C15: the configuration entry "custom1" sets suppress_output_on_success to
\* false; a request that selects it, leaves the request flag undefined and
\* whose command exits 0 is answered with the filtered output, not the
\* sentinel, and a listing reports the entry's override as false.
C15_TemplateOverrideSurvivesLoading ==
    /\ (/\ resp.kind = "ok"
        /\ resp.template_used = "custom1"
        /\ req.suppress_output_on_success.type = "undefined"
        /\ execResult.exitCode = 0)
           => resp.output = filterOutput(execResult.output, selected.template)
    /\ (/\ last.op = "getAvailableTemplates"
        /\ "custom1" \in DOMAIN last.ret)
           => last.ret["custom1"].suppress_output_on_success = "false"

----------------------------------------------------------------------------
(* Config Discovery driven directly: findConfigPath *)

MaxDepth == 2
MaxFiles == 2

\* A directory is the sequence of its path segments below "/".
CONFIG_FILE_NAME == ".quiet-shell/config.yaml"

root == <<>>

\* path.resolve of an absolute path: ".." steps to the parent, "/.." is "/"
RECURSIVE ResolveFrom(_, _)
ResolveFrom(dir, segments) ==
    IF segments = <<>> THEN dir
    ELSE IF Head(segments) = ".."
    THEN ResolveFrom(IF dir = <<>> THEN dir ELSE SubSeq(dir, 1, Len(dir) - 1),
                     Tail(segments))
    ELSE ResolveFrom(Append(dir, Head(segments)), Tail(segments))

resolve(path) == ResolveFrom(<<>>, path)

\* resolve(currentDir, CONFIG_FILE_NAME)
resolveIn(dir, name) == Append(dir, name)

\* Variant: the parent of a top-level directory is that directory.
dirname_StopsBelowRoot(dir) ==
    IF Len(dir) <= 1 THEN dir ELSE SubSeq(dir, 1, Len(dir) - 1)

\* path.dirname of a resolved directory: dirname("/") is "/"
dirname(dir) ==
    IF dir = <<>> THEN dir ELSE SubSeq(dir, 1, Len(dir) - 1)

existsSync(files, path) == path \in files

NotFound == [found |-> FALSE, path |-> <<>>]

\* Variant: the root test comes before the existence test.
LoopBody_RootNotChecked(files, currentDir) ==
    LET configPath == resolveIn(currentDir, CONFIG_FILE_NAME)
    IN  IF currentDir = root
        THEN [returns |-> TRUE, result |-> NotFound,
              checked |-> configPath, currentDir |-> currentDir]
        ELSE IF existsSync(files, configPath)
        THEN [returns |-> TRUE,
              result |-> [found |-> TRUE, path |-> configPath],
              checked |-> configPath, currentDir |-> currentDir]
        ELSE [returns |-> FALSE, result |-> NotFound,
              checked |-> configPath, currentDir |-> dirname(currentDir)]

\* one iteration of while (true)
LoopBody(files, currentDir) ==
    LET configPath == resolveIn(currentDir, CONFIG_FILE_NAME)
    IN  IF existsSync(files, configPath)
        THEN [returns |-> TRUE,
              result |-> [found |-> TRUE, path |-> configPath],
              checked |-> configPath, currentDir |-> currentDir]
        ELSE IF currentDir = root
        THEN [returns |-> TRUE, result |-> NotFound,
              checked |-> configPath, currentDir |-> currentDir]
        ELSE [returns |-> FALSE, result |-> NotFound,
              checked |-> configPath, currentDir |-> dirname(currentDir)]

SegmentNames == {"a", "b"}

Directories == UNION {[1..k -> SegmentNames] : k \in 0..MaxDepth}

StartDirs == UNION {[1..k -> SegmentNames \cup {".."}] : k \in 0..MaxDepth}

\* the configuration file exists in at most MaxFiles directories
FileSets ==
    UNION {{{resolveIn(ds[i], CONFIG_FILE_NAME) : i \in 1..k} :
               ds \in [1..k -> Directories]} : k \in 0..MaxFiles}

InitDiscovery ==
    /\ InitFilterIdle
    /\ InitManagerIdle
    /\ InitServerIdle
    /\ InitLoaderIdle
    /\ InitExecutorIdle
    /\ InitConcurrentIdle
    /\ dpc = "call"
    /\ dFiles \in FileSets
    /\ dStart \in StartDirs
    /\ dCurrent = <<>>
    /\ dChecked = <<>>
    /\ dResult = NotFound

\* const start = startDir ?? process.cwd(); let currentDir = resolve(start)
CallFindConfigPath ==
    /\ dpc = "call"
    /\ dCurrent' = resolve(dStart)
    /\ dpc' = "loop"
    /\ UNCHANGED <<dFiles, dStart, dChecked, dResult>>
    /\ UNCHANGED <<filterVars, managerVars, serverVars, loaderVars,
                   executorVars, concurrentVars>>

FindConfigPathStep ==
    /\ dpc = "loop"
    /\ Len(dChecked) <= MaxDepth + 1
    /\ LET body == LoopBody(dFiles, dCurrent)
       IN  /\ dChecked' = Append(dChecked, body.checked)
           /\ dCurrent' = body.currentDir
           /\ dResult' = body.result
           /\ dpc' = IF body.returns THEN "done" ELSE "loop"
    /\ UNCHANGED <<dFiles, dStart>>
    /\ UNCHANGED <<filterVars, managerVars, serverVars, loaderVars,
                   executorVars, concurrentVars>>

NextDiscovery == CallFindConfigPath \/ FindConfigPathStep

SpecDiscovery == InitDiscovery /\ [][NextDiscovery]_vars

\* the call runs on once started: nothing else is scheduled in between
SpecDiscoveryFair == SpecDiscovery /\ WF_vars(NextDiscovery)

----------------------------------------------------------------------------
(* Config Discovery properties *)

\* the start directory, its parent, ..., the root
Chain(dir) == {SubSeq(dir, 1, k) : k \in 0..Len(dir)}

Holders(files, dir) ==
    {d \in Chain(dir) : resolveIn(d, CONFIG_FILE_NAME) \in files}

Nearest(dirs) == CHOOSE d \in dirs : \A e \in dirs : Len(e) <= Len(d)

\* C16: findConfigPath returns the configuration path inside the nearest
\* directory of the chain start, parent, ..., root that holds the file (start
\* and root included), and returns null exactly when no directory of the
\* chain holds it.
C16_NearestHolderOnChainWins ==
    dpc = "done" =>
        LET holders == Holders(dFiles, resolve(dStart))
        IN  IF holders = {}
            THEN dResult = NotFound
            ELSE /\ dResult.found
                 /\ dResult.path = resolveIn(Nearest(holders), CONFIG_FILE_NAME)

\* the file is held by the root and by a directory beside the chain only:
\* the search from depth 2 returns the root's file
C16_Witness ==
    /\ dpc = "done"
    /\ dStart = <<"a", "b">>
    /\ dFiles = {resolveIn(<<>>, CONFIG_FILE_NAME),
                 resolveIn(<<"b">>, CONFIG_FILE_NAME)}
    /\ dResult = [found |-> TRUE, path |-> resolveIn(<<>>, CONFIG_FILE_NAME)]
    /\ Len(dChecked) = 3

\* the directory a checked path lies in
DirOf(path) == SubSeq(path, 1, Len(path) - 1)

IsProperPrefix(d, e) == Len(d) < Len(e) /\ d = SubSeq(e, 1, Len(d))

ChecksDescend ==
    /\ Len(dChecked) <= Len(resolve(dStart)) + 1
    /\ \A i \in 1..Len(dChecked) :
           dChecked[i] = resolveIn(DirOf(dChecked[i]), CONFIG_FILE_NAME)
    /\ \A i \in 2..Len(dChecked) :
           IsProperPrefix(DirOf(dChecked[i]), DirOf(dChecked[i - 1]))
    /\ \A i, j \in 1..Len(dChecked) : i # j => dChecked[i] # dChecked[j]

----------------------------------------------------------------------------
(* Command Executor: executeCommand and the events of its child process *)

MaxChunks == 3

\* Bytes: "a" is an ASCII byte; "C3" "A9" is the two-byte UTF-8 encoding of
\* U+00E9.  Characters: "a", "U+00E9", and the replacement character "U+FFFD".
Bytes == {"a", "C3", "A9"}

\* Buffer.prototype.toString(): UTF-8 decoding of one buffer on its own; a
\* lead byte without its continuation, or a continuation byte without its
\* lead, decodes to U+FFFD
RECURSIVE toString(_)
toString(data) ==
    IF data = <<>> THEN <<>>
    ELSE IF Head(data) = "C3"
    THEN IF Len(data) >= 2 /\ data[2] = "A9"
         THEN <<"U+00E9">> \o toString(SubSeq(data, 3, Len(data)))
         ELSE <<"U+FFFD">> \o toString(Tail(data))
    ELSE IF Head(data) = "A9"
    THEN <<"U+FFFD">> \o toString(Tail(data))
    ELSE <<Head(data)>> \o toString(Tail(data))

\* outputChunks.join("")
RECURSIVE JoinEmpty(_)
JoinEmpty(chunks) ==
    IF chunks = <<>> THEN <<>> ELSE Head(chunks) \o JoinEmpty(Tail(chunks))

Pending == [state |-> "pending", value |-> ExecutionResult(0, <<>>)]

\* Variant: a later resolve replaces the value of an earlier one.
Resolve_LastWins(p, value) == [state |-> "resolved", value |-> value]

\* resolve(value): only the first call settles the promise
Resolve(p, value) ==
    IF p.state = "pending" THEN [state |-> "resolved", value |-> value] ELSE p

NullCode == [isNull |-> TRUE, n |-> 0]

Code(n) == [isNull |-> FALSE, n |-> n]

\* Variant: a missing code counts as a failure.
ExitCodeOf_NullIsFailure(code) == IF code.isNull THEN 1 ELSE code.n

\* code ?? 0
ExitCodeOf(code) == IF code.isNull THEN 0 ELSE code.n

\* `Error executing command: ${error.message}`
ErrorOutput(message) == <<"Error executing command: ">> \o message

NotSeen == [seen |-> FALSE, code |-> NullCode, message |-> <<>>]

DataChunks == {<<"a">>, <<"C3">>, <<"A9">>, <<"C3", "A9">>}

CloseCodes == {NullCode, Code(-2), Code(0), Code(1), Code(127)}

ErrorMessages == {<<>>, <<"spawn ENOENT">>}

\* the state in which executeCommand has returned its promise
InitExecutor ==
    /\ InitFilterIdle
    /\ InitManagerIdle
    /\ InitServerIdle
    /\ InitLoaderIdle
    /\ InitDiscoveryIdle
    /\ InitConcurrentIdle
    /\ child = "running"
    /\ outputChunks = <<>>
    /\ received = <<>>
    /\ closeCode = NotSeen
    /\ spawnError = NotSeen
    /\ promise = Pending

\* a data event of one of the two pipes; none follows the close event
DataEvent(stream, data) ==
    /\ child # "closed"
    /\ Len(received) < MaxChunks
    /\ outputChunks' = Append(outputChunks, toString(data))
    /\ received' = Append(received, [stream |-> stream, data |-> data])
    /\ UNCHANGED <<child, closeCode, spawnError, promise>>
    /\ UNCHANGED <<filterVars, managerVars, serverVars, loaderVars,
                   discoveryVars, concurrentVars>>

\* child.stdout.on("data", ...)
StdoutData == \E data \in DataChunks : DataEvent("stdout", data)

\* child.stderr.on("data", ...)
StderrData == \E data \in DataChunks : DataEvent("stderr", data)

\* child.on("close", ...)
CloseEvent ==
    /\ child # "closed"
    /\ \E code \in CloseCodes :
          LET exitCode == ExitCodeOf(code)
              output == JoinEmpty(outputChunks)
          IN  /\ promise' = Resolve(promise, ExecutionResult(exitCode, output))
              /\ closeCode' = [seen |-> TRUE, code |-> code, message |-> <<>>]
    /\ child' = "closed"
    /\ UNCHANGED <<outputChunks, received, spawnError>>
    /\ UNCHANGED <<filterVars, managerVars, serverVars, loaderVars,
                   discoveryVars, concurrentVars>>

\* child.on("error", ...): the process could not be spawned (a close event
\* follows) or an operation on it failed
ErrorEvent ==
    /\ child = "running"
    /\ \E message \in ErrorMessages :
          /\ promise' = Resolve(promise,
                                ExecutionResult(1, ErrorOutput(message)))
          /\ spawnError' = [seen |-> TRUE, code |-> NullCode,
                            message |-> message]
    /\ child' = "errored"
    /\ UNCHANGED <<outputChunks, received, closeCode>>
    /\ UNCHANGED <<filterVars, managerVars, serverVars, loaderVars,
                   discoveryVars, concurrentVars>>

NextExecutor == StdoutData \/ StderrData \/ CloseEvent \/ ErrorEvent

SpecExecutor == InitExecutor /\ [][NextExecutor]_vars

----------------------------------------------------------------------------
(* Command Executor properties *)

\* the bytes of the received chunks, in arrival order
RECURSIVE ReceivedBytes(_)
ReceivedBytes(events) ==
    IF events = <<>> THEN <<>>
    ELSE Head(events).data \o ReceivedBytes(Tail(events))

NormalTermination == child = "closed" /\ ~spawnError.seen

\* C18: on normal termination the resolved output is the concatenation, in
\* arrival order, of all chunks received from the two streams; when all of
\* them came from one stream, it is the text of the bytes that stream carried.
C18_OutputIsConcatenationOfChunks ==
    NormalTermination =>
        /\ promise.state = "resolved"
        /\ promise.value.output =
               JoinEmpty([i \in 1..Len(received) |-> toString(received[i].data)])
        /\ (\A i \in 1..Len(received) : received[i].stream = "stdout") =>
               promise.value.output = toString(ReceivedBytes(received))

\* C19: on normal termination the promise is resolved with the code the close
\* event reported, and with 0 when that code is null.
C19_ExitCodeIsCloseCodeOrZero ==
    NormalTermination =>
        /\ promise.state = "resolved"
        /\ promise.value.exitCode =
               IF closeCode.code = NullCode THEN 0 ELSE closeCode.code.n

\* a process that wrote to both pipes and was closed without a code
C19_Witness ==
    /\ NormalTermination
    /\ closeCode.code = NullCode
    /\ Len(received) = 2
    /\ received[1].stream = "stdout"
    /\ received[2].stream = "stderr"
    /\ promise.value.exitCode = 0

\* C20: once the error event has fired the promise is resolved, never
\* rejected, with exit code 1 and the output "Error executing command: "
\* followed by the error's message; chunks captured before the error and a
\* close event after it change nothing.
C20_ErrorResolvesWithSyntheticFailure ==
    spawnError.seen =>
        /\ promise.state = "resolved"
        /\ promise.value.exitCode = 1
        /\ promise.value.output =
               <<"Error executing command: ">> \o spawnError.message

\* an error after captured output, followed by the close event
C20_Witness ==
    /\ spawnError.seen
    /\ spawnError.message = <<"spawn ENOENT">>
    /\ child = "closed"
    /\ closeCode.code = Code(-2)
    /\ outputChunks # <<>>
    /\ promise.value = ExecutionResult(1, <<"Error executing command: ",
                                           "spawn ENOENT">>)

----------------------------------------------------------------------------
(* Concurrent executeCommand invocations *)

MaxCalls == 2

\* the byte written by the child of each invocation
CallBytes == <<"a", "b", "c", "d">>

CallIds == 1..MaxCalls

CallCloseCodes == {NullCode, Code(127)}

CallErrorMessages == {<<"spawn ENOENT">>}

\* events: the close / error events delivered so far, in order
\* overlapped: an event was delivered while another invocation was running
NewCall ==
    [phase |-> "idle", spawns |-> 0, outputChunks |-> <<>>,
     received |-> <<>>, events |-> <<>>, closeCode |-> NullCode,
     message |-> <<>>, promise |-> Pending, overlapped |-> FALSE]

OthersRunning(cs, i) == \E j \in DOMAIN cs : j # i /\ cs[j].phase = "running"

TotalReceived(cs) ==
    LET RECURSIVE Sum(_)
        Sum(k) == IF k = 0 THEN 0 ELSE Len(cs[k].received) + Sum(k - 1)
    IN  Sum(Len(cs))

\* Variant: one outputChunks array is shared by all invocations.
PushChunk_SharedBuffer(cs, i, text) ==
    [j \in DOMAIN cs |->
        IF cs[j].phase = "running"
        THEN [cs[j] EXCEPT !.outputChunks = Append(@, text)]
        ELSE cs[j]]

\* outputChunks.push(data.toString()) inside the closure of invocation i
PushChunk(cs, i, text) ==
    [cs EXCEPT ![i].outputChunks = Append(@, text)]

\* Variant: a close event without exit code does not settle the promise.
OnClose_SignalIgnored(p, code, output) ==
    IF code = NullCode THEN p
    ELSE Resolve(p, ExecutionResult(ExitCodeOf(code), output))

\* child.on("close", (code) => resolve({ exitCode: code ?? 0, output }))
OnClose(p, code, output) ==
    Resolve(p, ExecutionResult(ExitCodeOf(code), output))

InitConcurrent ==
    /\ InitFilterIdle
    /\ InitManagerIdle
    /\ InitServerIdle
    /\ InitLoaderIdle
    /\ InitDiscoveryIdle
    /\ InitExecutorIdle
    /\ calls = [i \in CallIds |-> NewCall]

\* executeCommand(command): new Promise, const outputChunks = [], spawn
Invoke(i) ==
    /\ calls[i].phase = "idle"
    /\ calls' = [calls EXCEPT ![i].phase = "running",
                              ![i].spawns = @ + 1,
                              ![i].outputChunks = <<>>,
                              ![i].promise = Pending]

\* a data event on a pipe of the child of invocation i
CallData(i, stream) ==
    /\ calls[i].phase = "running"
    /\ TotalReceived(calls) < MaxCalls    \* one chunk per invocation on average
    /\ LET data == <<CallBytes[i]>>
           pushed == PushChunk(calls, i, toString(data))
       IN  calls' = [pushed EXCEPT
                        ![i].received =
                            Append(@, [stream |-> stream, data |-> data]),
                        ![i].overlapped = @ \/ OthersRunning(calls, i)]

\* the close event of the child of invocation i
CallClose(i) ==
    /\ calls[i].phase = "running"
    /\ \E code \in CallCloseCodes :
          LET output == JoinEmpty(calls[i].outputChunks)
          IN  calls' = [calls EXCEPT
                           ![i].phase = "closed",
                           ![i].closeCode = code,
                           ![i].events = Append(@, "close"),
                           ![i].promise = OnClose(@, code, output),
                           ![i].overlapped = @ \/ OthersRunning(calls, i)]

\* the error event of the child of invocation i; the handler stays
\* registered, so it is run whenever the event is emitted, before or after
\* the close event
CallError(i) ==
    /\ calls[i].phase \in {"running", "closed"}
    /\ \A k \in 1..Len(calls[i].events) : calls[i].events[k] # "error"
    /\ \E message \in CallErrorMessages :
          calls' = [calls EXCEPT
                       ![i].message = message,
                       ![i].events = Append(@, "error"),
                       ![i].promise =
                           Resolve(@, ExecutionResult(1, ErrorOutput(message))),
                       ![i].overlapped = @ \/ OthersRunning(calls, i)]

ConcurrentUnchanged ==
    UNCHANGED <<filterVars, managerVars, serverVars, loaderVars,
                discoveryVars, executorVars>>

NextConcurrent ==
    \/ (\E i \in CallIds : Invoke(i)) /\ ConcurrentUnchanged
    \/ (\E i \in CallIds : CallData(i, "stdout")) /\ ConcurrentUnchanged
    \/ (\E i \in CallIds : CallData(i, "stderr")) /\ ConcurrentUnchanged
    \/ (\E i \in CallIds : CallClose(i)) /\ ConcurrentUnchanged
    \/ (\E i \in CallIds : CallError(i)) /\ ConcurrentUnchanged

SpecConcurrent == InitConcurrent /\ [][NextConcurrent]_vars

\* the invocation whose child is not assumed to terminate
HungCall == 1

\* the children of all other invocations terminate: their close event is
\* eventually emitted
SpecConcurrentFair ==
    /\ SpecConcurrent
    /\ \A i \in CallIds \ {HungCall} :
           WF_vars(CallClose(i) /\ ConcurrentUnchanged)

----------------------------------------------------------------------------
(* Properties of concurrent invocations *)

OwnText(c) == JoinEmpty([k \in 1..Len(c.received) |-> toString(c.received[k].data)])

ClosedFirst(c) == c.events # <<>> /\ Head(c.events) = "close"

ErroredFirst(c) == c.events # <<>> /\ Head(c.events) = "error"

\* C21: however the events of concurrent invocations interleave, each
\* invocation has spawned exactly one process, has collected exactly the
\* chunks of its own child, and, when its child closes, resolves with its own
\* child's chunks and exit code.
C21_InvocationsAreIndependent ==
    calls # <<>> =>
        \A i \in DOMAIN calls :
            LET c == calls[i]
            IN  /\ c.spawns = IF c.phase = "idle" THEN 0 ELSE 1
                /\ c.outputChunks =
                       [k \in 1..Len(c.received) |-> toString(c.received[k].data)]
                /\ \A k \in 1..Len(c.received) :
                       c.received[k].data = <<CallBytes[i]>>
                /\ ClosedFirst(c) =>
                       c.promise.value =
                           ExecutionResult(ExitCodeOf(c.closeCode), OwnText(c))

\* two overlapping invocations, each closed with its own chunk and code
C21_Witness ==
    /\ calls # <<>>
    /\ calls[1].overlapped /\ calls[2].overlapped
    /\ calls[1].promise = [state |-> "resolved",
                           value |-> ExecutionResult(0, <<"a">>)]
    /\ calls[2].promise = [state |-> "resolved",
                           value |-> ExecutionResult(127, <<"b">>)]

\* C29: an invocation has a result exactly when a close or error event has
\* been delivered for its child, and that result is the one of the first of
\* these events: the close result when close came first, the synthetic
\* failure when error came first; the other event and chunks delivered
\* afterwards leave it as it is.
C29_FirstEventDeterminesTheResult ==
    calls # <<>> =>
        \A i \in DOMAIN calls :
            LET c == calls[i]
            IN  /\ (c.promise.state = "resolved") <=> (c.events # <<>>)
                /\ ClosedFirst(c) =>
                       c.promise.value =
                           ExecutionResult(ExitCodeOf(c.closeCode), OwnText(c))
                /\ ErroredFirst(c) =>
                       c.promise.value =
                           ExecutionResult(1, ErrorOutput(c.message))

\* invocation 1: error, then a chunk, then close; invocation 2: close, then
\* error
C29_Witness ==
    /\ calls # <<>>
    /\ calls[1].events = <<"error", "close">>
    /\ calls[1].closeCode = Code(127)
    /\ calls[1].outputChunks = <<<<"a">>>>
    /\ calls[1].promise.value =
           ExecutionResult(1, <<"Error executing command: ", "spawn ENOENT">>)
    /\ calls[2].events = <<"close", "error">>
    /\ calls[2].promise.value = ExecutionResult(127, <<>>)

----------------------------------------------------------------------------
(* getTemplate as a lookup in the merged set *)

\* C27: getTemplate(name) returns the merged set's template for name when
\* name is a key of the merged set, and undefined for every name that is not a
\* key of the merged set, whatever string the name is.
C27_GetTemplateIsLookupInMergedSet ==
    last.op = "getTemplate" =>
        IF last.name \in DOMAIN last.ret
        THEN last.found /\ last.template = last.ret[last.name]
        ELSE ~last.found

----------------------------------------------------------------------------
(* The handler's answer to an unknown template name *)

\* the step in which the handler passes the resolution of executeCommand
HandlerResumes == pc = "executing" /\ pc' # "executing"

\* C22: when an execute_command request names a template that is not in the
\* current merged set, the response is an error (no result, exit_code or
\* output) whose message names the requested template and lists every
\* template name currently available.
C22_UnknownTemplateIsAnError ==
    [][(/\ HandlerResumes
        /\ TemplateRequested(req)
        /\ req.template.s \notin DOMAIN cache'.templates)
          => /\ pc' = "done"
             /\ resp' = ErrorResponse(TemplateNotFound(req.template.s),
                                      DOMAIN cache'.templates)]_vars

----------------------------------------------------------------------------
(* Validity of the templates the manager hands out *)

\* t.tail_paragraphs >= 0 as JavaScript evaluates it: false for NaN, and
\* n + 1/2 >= 0 iff n >= 0
TailAtLeastZero(t) == t.tail_kind # "NaN" /\ t.tail_paragraphs >= 0

\* C28: every template in any set returned by the Template Manager (built-in
\* or custom) has tail_paragraphs >= 0 and an include_regex that compiles,
\* after any sequence of loads, reloads and TTL expiries.
C28_ReturnedTemplatesAreValid ==
    last.op \in Gets =>
        \A n \in DOMAIN last.ret :
            /\ TailAtLeastZero(last.ret[n])
            /\ RegexCompiles(last.ret[n].include_regex)

----------------------------------------------------------------------------
(* The output file of execute_command *)

\* the text the response shows for the request in the slot
PrimaryOutput ==
    IF EffectiveSuppression /\ execResult.exitCode = 0 THEN SUPPRESSED
    ELSE IF selected.applied
    THEN filterOutput(execResult.output, selected.template)
    ELSE execResult.output

\* the response the request in the slot gets when it names no output file
PrimaryResponse ==
    StructuredResponse(execResult, PrimaryOutput,
                       IF selected.applied THEN req.template.s ELSE "null",
                       "null", "null")

\* the output-file step of the request in the slot has ended, either way
WriteSettled == written.done \/ written.error # "null"

\* C23: whenever output_file is given and the template is resolved, the
\* content written to the file is the raw combined output of the command,
\* whatever the template and the suppression setting are, even when the
\* response output is the filtered text or the success sentinel.
C23_FileHoldsRawOutput ==
    written.done =>
        /\ written.content = execResult.output
        /\ resp.kind = "ok"
        /\ resp.output = PrimaryOutput

\* the file holds the raw text while the response shows the sentinel of a
\* request filtered through a template
C23_Witness ==
    /\ written.done
    /\ resp.template_used = "tsc"
    /\ resp.output = SUPPRESSED
    /\ written.content = <<"a", NL, "E", NL, NL, "a", NL>>
    /\ written.content # filterOutput(execResult.output, selected.template)

\* C24: when resolving or writing the output file fails, the response carries
\* the same result, exit_code, output and template_used as without
\* output_file, with output_file null and output_file_error the failure
\* message; when the write succeeds output_file is the resolved path and
\* output_file_error is null; never both non-null.
C24_FileOutcomeOnlyFillsItsTwoFields ==
    (resp.kind = "ok" /\ Truthy(req.output_file)) =>
        /\ [resp EXCEPT !.output_file = "null", !.output_file_error = "null"]
               = PrimaryResponse
        /\ IF written.done
           THEN /\ resp.output_file = written.path
                /\ resp.output_file # "null"
                /\ resp.output_file_error = "null"
           ELSE /\ resp.output_file = "null"
                /\ resp.output_file_error = written.error
                /\ resp.output_file_error # "null"

\* a failed mkdir reported beside the filtered text of a failing command
C24_Witness ==
    /\ resp.kind = "ok"
    /\ resp.output_file_error = "EACCES: mkdir"
    /\ resp.output_file = "null"
    /\ resp.template_used = "tsc"
    /\ resp.exit_code = 1
    /\ resp.output = <<"E", NL, "a">>

\* C25 (as stated): output-file writing never delays the return of the
\* primary result: once the primary result has been computed the response is
\* returned, without waiting for the file write to complete.
C25_AsStated == pc = "writing" => resp.kind = "ok"

\* C25 (amended): output-file writing starts only after the primary result
\* has been computed and does not change it, and the response of a request
\* with an output file is returned only after the write has settled.
C25_ResponseFollowsTheWrite ==
    /\ pc = "writing" =>
           /\ resp = NoResponse
           /\ ~WriteSettled
           /\ pending.output = PrimaryOutput
    /\ (resp.kind = "ok" /\ Truthy(req.output_file)) =>
           /\ WriteSettled
           /\ resp.output = PrimaryOutput
           /\ resp.exit_code = execResult.exitCode

\* the filtered text of a failing command is held back while the write runs
C25_Witness ==
    /\ pc = "writing"
    /\ resp = NoResponse
    /\ pending.templateUsed = "tsc"
    /\ pending.output = <<"E", NL, "a">>
    /\ execResult.exitCode = 1

----------------------------------------------------------------------------
(* Validation of the command argument *)

\* a command the request contract admits: a non-empty string
IsUsableCommand(c) == c.type = "string" /\ c.s # ""

\* C26: an execute_command request whose command is missing, empty or not a
\* string yields an explicit error response, and no process is spawned, no
\* template is resolved and no output file is written.
C26_UnusableCommandIsRejectedUpFront ==
    [][(pc' # "idle" /\ ~IsUsableCommand(req'.command)) =>
          /\ pc' = "done"
          /\ resp' = ErrorResponse(COMMAND_REQUIRED, {})
          /\ execResult' = NoResult
          /\ selected' = NotSelected
          /\ written' = NotWritten
          /\ pc = "idle" => UNCHANGED <<cache, cacheTime, loaded>>]_vars

\* a number as command is refused although a template and a file are named
C26_Witness ==
    /\ pc = "done"
    /\ req.command = YNumber(7)
    /\ req.template = YString("tsc")
    /\ Truthy(req.output_file)
    /\ resp = ErrorResponse(COMMAND_REQUIRED, {})
    /\ ~cache.present
    /\ written = NotWritten

----------------------------------------------------------------------------
(* The cached set between manager operations *)

\* C30: between manager operations, for any interleaving of requests on one
\* TemplateManager and including loads that fail part-way, the cache is
\* either absent or a complete merged set containing every built-in name; a
\* partially merged set is never stored or returned, and a refresh replaces
\* the cached set as a whole: nothing of the previously cached set survives
\* unless the new load produced it.
C30_CacheIsAbsentOrCompleteMergedSet ==
    [][/\ cache'.present =>
              /\ DOMAIN BUILTIN_TEMPLATES \subseteq DOMAIN cache'.templates
              /\ IsOverlay(cache'.templates, BUILTIN_TEMPLATES, loaded')
       /\ ~cache'.present => cache' = NoCache
       /\ last'.op \in Gets =>
              /\ cache'.present
              /\ last'.ret = cache'.templates
       /\ (last'.op \in Gets /\ last'.loads = 1) =>
              IsOverlay(cache'.templates, BUILTIN_TEMPLATES,
                        CustomLoaded(fsConfig))]_vars

\* a refresh over an existing cache by a load that skipped an invalid entry
C30_Witness ==
    /\ last.op = "getAvailableTemplates"
    /\ last.loads = 1
    /\ last.pre.present
    /\ last.pre.reload = "no"
    /\ \E i \in 1..Len(fsConfig.file.entries) :
           fsConfig.file.entries[i].name = "bad"
    /\ "bad" \notin DOMAIN cache.templates
    /\ cache.templates["tsc"] = loaded["tsc"]
    /\ cache.templates["custom1"] = loaded["custom1"]
    /\ cache.templates["vitest"] = BUILTIN_TEMPLATES["vitest"]

----------------------------------------------------------------------------
(* The built-in set under merging *)

\* the load cycle started for fs has no custom templates to merge
NothingToMerge(fs) == findConfigPath(fs) = "null" \/ LoadRaises(fs)

----------------------------------------------------------------------------
(* Completion of an invocation *)

\* C32: an executeCommand invocation completes if and only if its child
\* emits close or error: an invocation whose child terminates eventually
\* resolves, an invocation whose child has emitted neither event is never
\* resolved (there is no timeout and no cancellation), and a child that never
\* terminates does not keep the other invocations from resolving.
C32_ResolvesIffChildTerminates ==
    /\ \A i \in CallIds \ {HungCall} :
           (calls[i].phase = "running") ~> (calls[i].promise.state = "resolved")
    /\ [](\A i \in CallIds :
             calls[i].events = <<>> => calls[i].promise = Pending)
    /\ [][\A i \in CallIds :
             (calls[i].promise = Pending /\ calls'[i].promise # Pending) =>
                 Len(calls'[i].events) = Len(calls[i].events) + 1]_vars

\* invocation 2 has resolved while the child of invocation 1, started
\* before it ended, has emitted nothing but data
C32_Witness ==
    /\ calls # <<>>
    /\ calls[HungCall].phase = "running"
    /\ calls[HungCall].events = <<>>
    /\ calls[HungCall].received # <<>>
    /\ calls[HungCall].promise = Pending
    /\ calls[2].overlapped
    /\ calls[2].promise.state = "resolved"

----------------------------------------------------------------------------
(* A signal-terminated child, seen through execute_command *)

\* a request that leaves suppress_output_on_success and output_file out
DefaultRequest(template) ==
    Request(YString("npm test"), template, YUndefined, YUndefined)

\* the response the handler builds once executeCommand has resolved with res,
\* for a manager that holds the built-in templates
ResponseTo(r, res) ==
    LET h == AfterExecute(r, res, NoCache, 0, CONFIG_CACHE_TTL, 0,
                          BUILTIN_TEMPLATES, NoConfig)
    IN  IF h.threw
        THEN ErrorResponse(TemplateNotFound(r.template.s), h.available)
        ELSE StructuredResponse(res, h.output, h.templateUsed, "null", "null")

\* C33: for a child terminated by a signal (close event without exit code)
\* the execute_command response under default settings reports exit_code 0
\* and result "success" and shows the success sentinel instead of the
\* captured output, exactly as for a command that exited 0.
C33_SignalIsReportedAsSuccess ==
    (NormalTermination /\ closeCode.code = NullCode) =>
        \A t \in {YUndefined, YString("tsc")} :
            LET answer == ResponseTo(DefaultRequest(t), promise.value)
            IN  /\ answer.kind = "ok"
                /\ answer.exit_code = 0
                /\ answer.result = "success"
                /\ answer.output = SUPPRESSED
                /\ answer = ResponseTo(DefaultRequest(t),
                                       ExecutionResult(0, JoinEmpty(outputChunks)))

\* a killed child that had written one chunk: the chunk is not shown
C33_Witness ==
    /\ NormalTermination
    /\ closeCode.code = NullCode
    /\ Len(received) = 1
    /\ promise.value.output # <<>>
    /\ ResponseTo(DefaultRequest(YUndefined), promise.value).output = SUPPRESSED

----------------------------------------------------------------------------
(* The validity window of the cache *)

\* C34: the cache validity window is half-open: a set loaded at time t is
\* served without reloading to every get at a time in [t, t + TTL) and is
\* reloaded by the first get at a time >= t + TTL (an age equal to the TTL
\* counts as expired); with TTL = 0 every get performs a fresh load.
C34_ValidityWindowIsHalfOpen ==
    [][last'.op \in Gets =>
          /\ (/\ cache.present
              /\ cacheTime <= now
              /\ now < cacheTime + cacheTTL)
                 => /\ last'.loads = 0
                    /\ last'.ret = cache.templates
                    /\ cacheTime' = cacheTime
          /\ (cache.present /\ now >= cacheTime + cacheTTL)
                 => /\ last'.loads = 1
                    /\ cacheTime' = now
          /\ cacheTTL = 0 => last'.loads = 1]_vars

\* a get at the very end of the window of a positive TTL reloads
C34_Witness ==
    /\ last.op \in Gets
    /\ cacheTTL = CONFIG_CACHE_TTL
    /\ last.pre.present
    /\ last.pre.reload = "no"
    /\ last.pre.age = cacheTTL
    /\ last.loads = 1
    /\ cacheTime = now

----------------------------------------------------------------------------
(* Order of execution and template resolution *)

----------------------------------------------------------------------------
(* Filtering a filtered text *)

TailKinds == {"", "half", "NaN"}

\* C36: filterOutput is idempotent for every template whose regex compiles:
\* filtering the result of a call again with the same template returns that
\* result unchanged, for every raw output and for whole, fractional and
\* not-a-number tail_paragraphs alike.
C36_FilterIsIdempotent ==
    (fpc = "filtered" /\ F_Compiles) =>
        /\ filterOutput(fResult, fTemplate) = fResult
        /\ \A k \in TailKinds :
               LET t == [fTemplate EXCEPT !.tail_kind = k]
                   once == filterOutput(fRaw, t)
               IN  filterOutput(once, t) = once

\* the first pass reorders and drops lines and merges two paragraphs; the
\* second pass sees one paragraph and returns it as it is
C36_Witness ==
    /\ fpc = "filtered"
    /\ fTemplate.include_regex = "E"
    /\ fTemplate.tail_paragraphs = 1
    /\ fRaw = <<"a", NL, NL, "E", NL, NL, "a">>
    /\ Len(fParagraphs) = 3
    /\ fResult = <<"E", NL, "a">>
    /\ Len(parseParagraphs(fResult)) = 1
    /\ filterOutput(fResult, fTemplate) = fResult

----------------------------------------------------------------------------
(* What the result holds *)

InSeq(x, s) == \E i \in 1..Len(s) : s[i] = x

\* ''.split('\n') is [''], but an empty result has no line
ResultLines == IF fResult = <<>> THEN <<>> ELSE Split(fResult)

\* the lines of the raw output; the empty output has none
RawLines == IF fRaw = <<>> THEN <<>> ELSE Split(fRaw)

F_TailLines == Flat(LastParagraphs(fParagraphs, F_N))

ResultHoldsOnlyMatchedOrTail ==
    \A i \in 1..Len(ResultLines) :
        LET line == ResultLines[i]
        IN  /\ ~IsBlankLine(line)
            /\ InSeq(line, RawLines)
            /\ F_Matches(line) \/ InSeq(line, F_TailLines)

ResultHoldsTail == \A i \in 1..Len(F_TailLines) : InSeq(F_TailLines[i], ResultLines)

\* C37 (as stated): for a compilable regex each line of the result is a
\* non-blank line of the raw output that matches the regex or belongs to one
\* of the last max(0, tail_paragraphs) paragraphs; conversely EVERY matching
\* line of the raw output and every line of those paragraphs occurs in the
\* result, and the result contains no blank line.
C37_AsStated ==
    (fpc = "filtered" /\ F_Compiles) =>
        /\ ResultHoldsOnlyMatchedOrTail
        /\ \A i \in 1..Len(RawLines) :
               F_Matches(RawLines[i]) => InSeq(RawLines[i], ResultLines)
        /\ ResultHoldsTail

\* C37 (amended): for a compilable regex each line of the result is a
\* non-blank line of the raw output that matches the regex or belongs to one
\* of the last max(0, tail_paragraphs) paragraphs; conversely every NON-BLANK
\* matching line and every line of those paragraphs occurs in the result, and
\* the result contains no blank line.
C37_ResultIsMatchedAndTailLines ==
    (fpc = "filtered" /\ F_Compiles) =>
        /\ ResultHoldsOnlyMatchedOrTail
        /\ \A i \in 1..Len(RawLines) :
               (~IsBlankLine(RawLines[i]) /\ F_Matches(RawLines[i])) =>
                   InSeq(RawLines[i], ResultLines)
        /\ ResultHoldsTail

\* the empty pattern matches the blank and the empty line of the raw output
\* too; neither is in the result, every other line is
C37_Witness ==
    /\ fpc = "filtered"
    /\ fTemplate.include_regex = ""
    /\ fTemplate.tail_paragraphs = 1
    /\ fRaw = <<"a", NL, " ", NL, NL, "E">>
    /\ Len(fParagraphs) = 2
    /\ fResult = <<"a", NL, "E">>

----------------------------------------------------------------------------
(* filterOutput called repeatedly, on templates of the manager's cached set  *)
(* (the handler passes the object getTemplate returned) and on templates    *)
(* the caller built itself.                                                  *)

MaxFilterCalls == 3

FilterCallOutputs == {<<"E", NL, NL, "a">>, <<"a", NL, "E", NL, NL, "a", NL, "E">>}

FilterCallNames == {"tsc", "vitest", "custom1"}

FilterCallTemplates == {Template("test", "E", 1, "undefined"), Template("test", "", 0, "undefined")}

FilterCallConfigs ==
    {fs \in ConfigStates : ~fs.found \/ (fs.file.kind = "ok" /\ Len(fs.file.entries) > 0)}

\* Variant: the tail count is written back into the template.
TemplateAfterFilter_TailConsumed(template) ==
    [template EXCEPT !.tail_paragraphs = 0, !.tail_kind = ""]

\* the template object when filterOutput returns: include_regex and
\* tail_paragraphs are read, nothing is assigned
TemplateAfterFilter(template) == template

FilterCall(rawOutput, template, after, result) ==
    [rawOutput |-> rawOutput, template |-> template, after |-> after,
     result |-> result]

InitFilterCalls ==
    /\ fpc = "calls"
    /\ fRaw = <<>>
    /\ fTemplate = NoTemplate
    /\ fParagraphs = <<>>
    /\ fResult = <<>>
    /\ fCalls = <<>>
    /\ now = 0
    /\ fsConfig \in FilterCallConfigs
    /\ cacheTTL = 0
    /\ cache = StoreCache(NoCache, loadTemplates(BUILTIN_TEMPLATES, fsConfig))
    /\ cacheTime = 0
    /\ loaded = EmptyTemplates
    /\ builtins = BUILTIN_TEMPLATES
    /\ reloadPending = "no"
    /\ last = Idle("new")
    /\ InitServerIdle
    /\ InitUnitsIdle

FilterCallsUnchanged ==
    /\ UNCHANGED <<fpc, now, fsConfig, cacheTTL, cacheTime, loaded,
                   reloadPending, last>>
    /\ UNCHANGED <<serverVars, unitVars>>

\* filterOutput(rawOutput, templateObj) with the object the cached set holds
\* under the name; the spread in loadTemplates copies references, so a
\* built-in template that was not replaced is the module's own object
FilterCachedTemplate(name, rawOutput) ==
    /\ fpc = "calls"
    /\ Len(fCalls) < MaxFilterCalls
    /\ name \in DOMAIN cache.templates
    /\ LET template == cache.templates[name]
           after == TemplateAfterFilter(template)
           result == filterOutput(rawOutput, template)
       IN  /\ fRaw' = rawOutput
           /\ fTemplate' = after
           /\ fResult' = result
           /\ fCalls' = Append(fCalls, FilterCall(rawOutput, template, after, result))
           /\ cache' = [cache EXCEPT !.templates[name] = after]
           /\ builtins' = IF name \in DOMAIN builtins /\ builtins[name] = template
                          THEN [builtins EXCEPT ![name] = after]
                          ELSE builtins
    /\ UNCHANGED fParagraphs
    /\ FilterCallsUnchanged

\* filterOutput(rawOutput, template) with an object of the caller's own
FilterOwnTemplate(template, rawOutput) ==
    /\ fpc = "calls"
    /\ Len(fCalls) < MaxFilterCalls
    /\ LET after == TemplateAfterFilter(template)
           result == filterOutput(rawOutput, template)
       IN  /\ fRaw' = rawOutput
           /\ fTemplate' = after
           /\ fResult' = result
           /\ fCalls' = Append(fCalls, FilterCall(rawOutput, template, after, result))
    /\ UNCHANGED <<fParagraphs, cache, builtins>>
    /\ FilterCallsUnchanged

\* parseParagraphs(rawOutput), called on its own between two filter calls
ParseBetweenCalls(rawOutput) ==
    /\ fpc = "calls"
    /\ fCalls # <<>>
    /\ Len(fCalls) < MaxFilterCalls
    /\ fParagraphs' = parseParagraphs(rawOutput)
    /\ fParagraphs' # fParagraphs
    /\ UNCHANGED <<fRaw, fTemplate, fResult, fCalls, cache, builtins>>
    /\ FilterCallsUnchanged

NextFilterCalls ==
    \/ \E name \in FilterCallNames, rawOutput \in FilterCallOutputs :
           FilterCachedTemplate(name, rawOutput)
    \/ \E template \in FilterCallTemplates, rawOutput \in FilterCallOutputs :
           FilterOwnTemplate(template, rawOutput)
    \/ \E rawOutput \in FilterCallOutputs : ParseBetweenCalls(rawOutput)

SpecFilterCalls == InitFilterCalls /\ [][NextFilterCalls]_vars

SameArguments(a, b) == a.rawOutput = b.rawOutput /\ a.template = b.template

====
